---- MODULE Spec2Model ----
(***************************************************************************)
(* Model of the byte-oriented finite automaton of                         *)
(* src/lib/finite_automata.rs: a vector of states, each holding an        *)
(* ordered list of (predicate, result_state_ref) transitions, and one     *)
(* current_state cursor.                                                   *)
(*                                                                         *)
(* A StateRef is a usize index into the vector `states`; index i of the    *)
(* Rust Vec is element i + 1 of the TLA+ sequence.                         *)
(***************************************************************************)
EXTENDS Integers, Sequences, FiniteSets, TLC

(* ---------------------------------------------------------------------- *)
(* Bounds of the model.                                                    *)
(* ---------------------------------------------------------------------- *)

\* Largest number of states the registry grows to.
MaxStates == 3

\* Largest total number of transitions registered on the automaton.
MaxTransitions == 2

(* ---------------------------------------------------------------------- *)
(* Inputs.                                                                 *)
(* ---------------------------------------------------------------------- *)

\* The byte 0x78 ('x') the unit tests build their predicate on.
ByteX == 120

\* The byte b'y' the unit tests feed as a non matching byte.
ByteY == 121

\* The bytes fed to the automaton.
Bytes == {ByteX, ByteY}

\* The closures the unit tests register: |c| c == 0x78 and |c| true.
Predicates == {"is_x", "always"}

\* The byte each equality closure of the two machines compares with:
\* |c| c == b'u' and so on.
ByteOf ==
    [is_m |-> 109, is_u |-> 117, is_l |-> 108, is_lparen |-> 40,
     is_comma |-> 44, is_rparen |-> 41, is_d |-> 100, is_o |-> 111,
     is_n |-> 110, is_quote |-> 39, is_t |-> 116,
     is_X |-> 88, is_M |-> 77, is_A |-> 65, is_S |-> 83]

\* A slip whose catch-all predicate accepts the ASCII bytes only.
Apply_ascii(p, byte) ==
    CASE p = "is_x"     -> byte = ByteX
      [] p = "always"   -> byte < 128
      [] p = "is_digit" -> byte >= 48 /\ byte <= 57
      [] OTHER          -> byte = ByteOf[p]

\* Application of a boxed predicate to a byte: (transition.predicate)(byte).
\* "is_digit" is |c| c >= b'0' && c <= b'9'.
Apply(p, byte) ==
    CASE p = "is_x"     -> byte = ByteX
      [] p = "always"   -> TRUE
      [] p = "is_digit" -> byte >= 48 /\ byte <= 57
      [] OTHER          -> byte = ByteOf[p]

\* The state references a caller may pass: every index the registry can
\* hold and one more, so a missing reference exists in every state.
StateRefs == 0 .. MaxStates

VARIABLES
    states,         \* FiniteAutomata.states : Vec<State>
    current_state,  \* FiniteAutomata.current_state : StateRef
    issued,         \* the references add_state has returned, in call order
    last,           \* the last call made on the automaton and its result
    before          \* right after add_state: the call made just before it

\* A second automaton, built next to the first one.
VARIABLES
    other_states,   \* its FiniteAutomata.states; <<>> while it is not built
    other_issued    \* the references its add_state has returned

\* The Machine of src/day03/part2/main.rs driven over one input.
VARIABLES
    day03_machine,  \* Machine
    day03_input,    \* the bytes still to feed
    day03_fed,      \* the bytes fed so far
    day03_status    \* "running", or "panic", "overflow" or "beyond" once
                    \* the run stopped

\* The machines of count_xmas in src/day04/part1/main.rs.
VARIABLES
    machines,       \* machines : Vec<Machine>
    fed,            \* per machine, the bytes it has been fed so far
    array,          \* array : Vec<Vec<u8>>
    cell,           \* the position of the loops of count_xmas
    sum,            \* the value count_xmas returns
    day04_status    \* "running", "done", or "panic" once the run stopped

\* find_obstructions_producing_cycles and detect_loop of
\* src/day06/part2/main.rs.
VARIABLES
    lab,            \* Lab: x_max, y_max, obstructions, extra_obstruction
    initial_guard,  \* the Guard the function was called with
    guard,          \* the Guard the loop moves
    turns,          \* turns : HashSet<Guard> of detect_loop
    obstructions,   \* obstructions : HashSet<Position> of
                    \* find_obstructions_producing_cycles
    day06_pc        \* "find" or "detect" in the loop, "returned",
                    \* "detect_true" or "detect_false" after the return

other_vars == <<other_states, other_issued>>

automata_vars == <<states, current_state, issued, last, before, other_vars>>

day03_vars == <<day03_machine, day03_input, day03_fed, day03_status>>

day04_vars == <<machines, fed, array, cell, sum, day04_status>>

day06_vars == <<lab, initial_guard, guard, turns, obstructions, day06_pc>>

vars == <<automata_vars, day03_vars, day04_vars, day06_vars>>

(* ---------------------------------------------------------------------- *)
(* State.                                                                  *)
(* ---------------------------------------------------------------------- *)

\* State::new
State_new(state_ref) ==
    [state_ref |-> state_ref, transitions |-> <<>>]

\* Transition { predicate, result_state_ref }
Transition(p, result_state_ref) ==
    [predicate |-> p, result_state_ref |-> result_state_ref]

\* A slip that pushes the new transition to the front of the list.
State_add_transition_front(state, p, result_state_ref) ==
    [state EXCEPT !.transitions = <<Transition(p, result_state_ref)>> \o @]

\* State::add_transition
State_add_transition(state, p, result_state_ref) ==
    [state EXCEPT !.transitions = Append(@, Transition(p, result_state_ref))]

(* ---------------------------------------------------------------------- *)
(* FiniteAutomata.                                                         *)
(* ---------------------------------------------------------------------- *)

\* A slip that points current_state behind the initial state.
FiniteAutomata_new_past_initial ==
    [current_state |-> 1, states |-> <<State_new(0)>>]

\* FiniteAutomata::new
FiniteAutomata_new ==
    [current_state |-> 0, states |-> <<State_new(0)>>]

\* FiniteAutomata::find_state_mut (Vec::get_mut): None when out of range.
find_state_mut(sts, state_ref) ==
    IF state_ref < Len(sts)
    THEN [some |-> TRUE, index |-> state_ref + 1]
    ELSE [some |-> FALSE, index |-> 0]

\* A slip that names the new state after the last index in use.
add_state_off_by_one(sts) ==
    LET state_ref == Len(sts) - 1
    IN  [states |-> Append(sts, State_new(state_ref)), ret |-> state_ref]

\* A slip that rebuilds the vector around the new state.
add_state_truncating(sts) ==
    LET state_ref == Len(sts)
    IN  [states |-> <<State_new(0), State_new(state_ref)>>, ret |-> state_ref]

\* A slip that starts the new state with the transitions of the last one.
add_state_cloning(sts) ==
    LET state_ref == Len(sts)
    IN  [states |-> Append(sts, [sts[Len(sts)] EXCEPT !.state_ref = state_ref]),
         ret |-> state_ref]

\* A slip that puts the new state in front of the vector.
add_state_inserting(sts) ==
    LET state_ref == Len(sts)
    IN  [states |-> <<State_new(state_ref)>> \o sts, ret |-> state_ref]

\* FiniteAutomata::add_state
add_state(sts) ==
    LET state_ref == Len(sts)
    IN  [states |-> Append(sts, State_new(state_ref)), ret |-> state_ref]

\* A slip that pushes the transition before the target is checked.
add_transition_partial(sts, state_ref, p, resulting_state_ref) ==
    LET state_count == Len(sts)
        found == find_state_mut(sts, state_ref)
    IN  IF state_ref >= state_count
        THEN [states |-> sts, result |-> "MissingState"]
        ELSE IF resulting_state_ref >= state_count
        THEN [states |-> [sts EXCEPT ![found.index] =
                            State_add_transition(@, p, resulting_state_ref)],
              result |-> "MissingState"]
        ELSE [states |-> [sts EXCEPT ![found.index] =
                            State_add_transition(@, p, resulting_state_ref)],
              result |-> "Ok"]

\* A slip that compares the target with > instead of >=.
add_transition_off_by_one(sts, state_ref, p, resulting_state_ref) ==
    LET state_count == Len(sts)
        found == find_state_mut(sts, state_ref)
    IN  IF state_ref >= state_count \/ resulting_state_ref > state_count
        THEN [states |-> sts, result |-> "MissingState"]
        ELSE [states |-> [sts EXCEPT ![found.index] =
                            State_add_transition(@, p, resulting_state_ref)],
              result |-> "Ok"]

\* A slip that checks the source state only.
add_transition_unchecked_target(sts, state_ref, p, resulting_state_ref) ==
    LET found == find_state_mut(sts, state_ref)
    IN  IF ~found.some
        THEN [states |-> sts, result |-> "MissingState"]
        ELSE [states |-> [sts EXCEPT ![found.index] =
                            State_add_transition(@, p, resulting_state_ref)],
              result |-> "Ok"]

\* A slip that reports a missing target as success without registering.
add_transition_silent(sts, state_ref, p, resulting_state_ref) ==
    LET state_count == Len(sts)
        found == find_state_mut(sts, state_ref)
    IN  IF state_ref >= state_count
        THEN [states |-> sts, result |-> "MissingState"]
        ELSE IF resulting_state_ref >= state_count
        THEN [states |-> sts, result |-> "Ok"]
        ELSE [states |-> [sts EXCEPT ![found.index] =
                            State_add_transition(@, p, resulting_state_ref)],
              result |-> "Ok"]

\* A slip that registers the transition on the target state.
add_transition_swapped(sts, state_ref, p, resulting_state_ref) ==
    LET state_count == Len(sts)
        found == find_state_mut(sts, resulting_state_ref)
    IN  IF state_ref >= state_count \/ resulting_state_ref >= state_count
        THEN [states |-> sts, result |-> "MissingState"]
        ELSE [states |-> [sts EXCEPT ![found.index] =
                            State_add_transition(@, p, resulting_state_ref)],
              result |-> "Ok"]

\* A slip that does not check the target when the source is the initial
\* state.
add_transition_lenient_initial(sts, state_ref, p, resulting_state_ref) ==
    LET state_count == Len(sts)
        found == find_state_mut(sts, state_ref)
    IN  IF state_ref >= state_count
             \/ (state_ref # 0 /\ resulting_state_ref >= state_count)
        THEN [states |-> sts, result |-> "MissingState"]
        ELSE [states |-> [sts EXCEPT ![found.index] =
                            State_add_transition(@, p, resulting_state_ref)],
              result |-> "Ok"]

\* FiniteAutomata::add_transition
add_transition(sts, state_ref, p, resulting_state_ref) ==
    LET state_count == Len(sts)
        found == find_state_mut(sts, state_ref)
    IN  IF state_ref >= state_count \/ resulting_state_ref >= state_count
        THEN [states |-> sts, result |-> "MissingState"]
        ELSE IF ~found.some
        THEN [states |-> sts, result |-> "MissingState"]
        ELSE [states |-> [sts EXCEPT ![found.index] =
                            State_add_transition(@, p, resulting_state_ref)],
              result |-> "Ok"]

\* add_transition_all: add_transition on every state registered at the
\* time of the call, in index order, stopping at the first error.
RECURSIVE add_transition_all_from(_, _, _, _)
add_transition_all_from(sts, state_ref, p, resulting_state_ref) ==
    IF state_ref >= Len(sts)
    THEN [states |-> sts, result |-> "Ok"]
    ELSE LET r == add_transition(sts, state_ref, p, resulting_state_ref)
         IN  IF r.result # "Ok"
             THEN r
             ELSE add_transition_all_from(r.states, state_ref + 1, p,
                                          resulting_state_ref)

add_transition_all(sts, p, resulting_state_ref) ==
    add_transition_all_from(sts, 0, p, resulting_state_ref)

\* A slip that walks the transitions from the back.
last_match(transitions, byte, i) ==
    LET matching == {j \in i .. Len(transitions) :
                        Apply(transitions[j].predicate, byte)}
    IN  IF matching = {} THEN 0
        ELSE CHOOSE j \in matching : \A k \in matching : k <= j

\* A slip that never tries the first transition of the list.
first_match_skipping(transitions, byte, i) ==
    LET matching == {j \in i + 1 .. Len(transitions) :
                        Apply(transitions[j].predicate, byte)}
    IN  IF matching = {} THEN 0
        ELSE CHOOSE j \in matching : \A k \in matching : j <= k

\* The loop of FiniteAutomata::transition: the index of the first
\* transition at or after i whose predicate accepts the byte, 0 if none.
RECURSIVE first_match(_, _, _)
first_match(transitions, byte, i) ==
    IF i > Len(transitions) THEN 0
    ELSE IF Apply(transitions[i].predicate, byte) THEN i
    ELSE first_match(transitions, byte, i + 1)

\* A slip that falls back to the initial state when nothing matches.
transition_resetting(cur, sts, byte) ==
    IF cur >= Len(sts)
    THEN [current_state |-> cur, result |-> "Panic"]
    ELSE LET state == sts[cur + 1]
             m == first_match(state.transitions, byte, 1)
         IN  IF m = 0
             THEN [current_state |-> 0, result |-> "MissingTransition"]
             ELSE [current_state |-> state.transitions[m].result_state_ref,
                   result |-> "Ok"]

\* A slip that keeps walking: from the state it has moved to, it takes the
\* first transition accepting the same byte as well.
transition_chaining(cur, sts, byte) ==
    IF cur >= Len(sts)
    THEN [current_state |-> cur, result |-> "Panic"]
    ELSE LET state == sts[cur + 1]
             m == first_match(state.transitions, byte, 1)
             via == sts[state.transitions[m].result_state_ref + 1]
             n == first_match(via.transitions, byte, 1)
         IN  IF m = 0
             THEN [current_state |-> cur, result |-> "MissingTransition"]
             ELSE IF n = 0
             THEN [current_state |-> state.transitions[m].result_state_ref,
                   result |-> "Ok"]
             ELSE [current_state |-> via.transitions[n].result_state_ref,
                   result |-> "Ok"]

\* FiniteAutomata::transition; "Panic" is the expect() on a missing
\* current state.
transition(cur, sts, byte) ==
    IF cur >= Len(sts)
    THEN [current_state |-> cur, result |-> "Panic"]
    ELSE LET state == sts[cur + 1]
             m == first_match(state.transitions, byte, 1)
         IN  IF m = 0
             THEN [current_state |-> cur, result |-> "MissingTransition"]
             ELSE [current_state |-> state.transitions[m].result_state_ref,
                   result |-> "Ok"]

(* ---------------------------------------------------------------------- *)
(* The calls a caller makes.                                               *)
(* ---------------------------------------------------------------------- *)

RECURSIVE TransitionCount(_)
TransitionCount(sts) ==
    IF sts = <<>> THEN 0
    ELSE Len(Head(sts).transitions) + TransitionCount(Tail(sts))

\* The record kept of a call: its name and its result.
Call(op, result) ==
    [op |-> op, result |-> result]

\* No call has been recorded.
NoCall == Call("none", "Ok")

\* No second automaton has been built.
NoOther ==
    /\ other_states = <<>>
    /\ other_issued = <<>>

\* The variables of the day 3 machine while no such machine runs.
Day03Idle ==
    /\ day03_machine = <<>>
    /\ day03_input = <<>>
    /\ day03_fed = <<>>
    /\ day03_status = "idle"

\* The variables of count_xmas while it does not run.
Day04Idle ==
    /\ machines = <<>>
    /\ fed = <<>>
    /\ array = <<>>
    /\ cell = <<>>
    /\ sum = 0
    /\ day04_status = "idle"

\* The variables of the day 6 functions while none of them runs.
Day06Idle ==
    /\ lab = <<>>
    /\ initial_guard = <<>>
    /\ guard = <<>>
    /\ turns = {}
    /\ obstructions = {}
    /\ day06_pc = "idle"

Init ==
    /\ states = FiniteAutomata_new.states
    /\ current_state = FiniteAutomata_new.current_state
    /\ issued = <<>>
    /\ last = Call("new", "Ok")
    /\ before = NoCall
    /\ NoOther
    /\ Day03Idle
    /\ Day04Idle
    /\ Day06Idle

AddState ==
    /\ Len(states) < MaxStates
    /\ LET r == add_state(states)
       IN  /\ states' = r.states
           /\ issued' = Append(issued, r.ret)
           /\ last' = Call("add_state", "Ok")
    /\ before' = last
    /\ UNCHANGED <<current_state, other_vars, day03_vars, day04_vars, day06_vars>>

AddTransition(state_ref, p, resulting_state_ref) ==
    LET r == add_transition(states, state_ref, p, resulting_state_ref)
    IN  /\ TransitionCount(r.states) <= MaxTransitions
        /\ states' = r.states
        /\ last' = Call("add_transition", r.result)
        /\ before' = NoCall
        /\ UNCHANGED <<current_state, issued, other_vars, day03_vars, day04_vars, day06_vars>>

AddTransitionAll(p, resulting_state_ref) ==
    LET r == add_transition_all(states, p, resulting_state_ref)
    IN  /\ TransitionCount(r.states) <= MaxTransitions
        /\ states' = r.states
        /\ last' = Call("add_transition_all", r.result)
        /\ before' = NoCall
        /\ UNCHANGED <<current_state, issued, other_vars, day03_vars, day04_vars, day06_vars>>

\* A slip that uses a transition up: the one taken is removed from the
\* list of the state that was current.
DoTransition_consuming(byte) ==
    LET r == transition(current_state, states, byte)
        ts == states[current_state + 1].transitions
        m == first_match(ts, byte, 1)
    IN  /\ current_state' = r.current_state
        /\ states' = IF m = 0 THEN states
                     ELSE [states EXCEPT ![current_state + 1].transitions =
                             SubSeq(ts, 1, m - 1) \o SubSeq(ts, m + 1, Len(ts))]
        /\ last' = Call("transition", r.result)
        /\ before' = NoCall
        /\ UNCHANGED <<issued, other_vars, day03_vars, day04_vars, day06_vars>>

\* FiniteAutomata::transition called by the caller.
DoTransition(byte) ==
    LET r == transition(current_state, states, byte)
    IN  /\ current_state' = r.current_state
        /\ last' = Call("transition", r.result)
        /\ before' = NoCall
        /\ UNCHANGED <<states, issued, other_vars, day03_vars, day04_vars, day06_vars>>

Next ==
    \/ AddState
    \/ \E state_ref \in StateRefs, p \in Predicates,
          resulting_state_ref \in StateRefs :
            AddTransition(state_ref, p, resulting_state_ref)
    \/ \E p \in Predicates, resulting_state_ref \in StateRefs :
            AddTransitionAll(p, resulting_state_ref)
    \/ \E byte \in Bytes : DoTransition(byte)

Spec == Init /\ [][Next]_vars

(* ---------------------------------------------------------------------- *)
(* The Machine of src/day03/part2/main.rs.                                 *)
(* ---------------------------------------------------------------------- *)

\* The largest number the model computes with, 2^31 - 1. The fields of
\* Machine are u32, which reach 2^32 - 1 = 2 * IntMax + 1.
IntMax == 32767 * 65536 + 65535

\* a + b on u32 for a, b up to IntMax. A negative operand is returned as
\* is; -2 is a result above IntMax, which a u32 holds (two numbers up to
\* IntMax never add up to 2^32) and the model does not follow.
add_u32(a, b) ==
    IF a < 0 THEN a
    ELSE IF b < 0 THEN b
    ELSE IF a > IntMax - b THEN -2
    ELSE a + b

\* (2^32 - 1) \div b for b from 2 to IntMax.
U32MaxDiv(b) ==
    2 * (IntMax \div b) + (IF IntMax % b >= b - (IntMax % b) - 1 THEN 1 ELSE 0)

\* a * b on u32 for a, b up to IntMax. A negative operand is returned as
\* is; -1 is the overflow of u32 (a product of 2^32 or more: a panic in a
\* build with overflow checks, a wrapped value in one without); -2 is a
\* product above IntMax that a u32 holds and the model does not follow.
mul_u32(a, b) ==
    IF a < 0 THEN a
    ELSE IF b < 0 THEN b
    ELSE IF a = 0 \/ b <= 1 THEN a * b
    ELSE IF a > U32MaxDiv(b) THEN -1
    ELSE IF a > IntMax \div b THEN -2
    ELSE a * b

\* What has become of a run after a step that computed the three numbers.
u32_status(sum_of_muls, n1, n2) ==
    IF sum_of_muls = -1 \/ n1 = -1 \/ n2 = -1 THEN "overflow"
    ELSE IF sum_of_muls < 0 \/ n1 < 0 \/ n2 < 0 THEN "beyond"
    ELSE "running"

\* The ? operator on add_transition: an earlier error is returned as is.
try_add_transition(r, state_ref, p, resulting_state_ref) ==
    IF r.result # "Ok" THEN r
    ELSE add_transition(r.states, state_ref, p, resulting_state_ref)

\* The ? operator on add_transition_all.
try_add_transition_all(r, p, resulting_state_ref) ==
    IF r.result # "Ok" THEN r
    ELSE add_transition_all(r.states, p, resulting_state_ref)

\* Machine::build_machine of day 3: [result, machine].
Day03_build_machine ==
    LET automata  == FiniteAutomata_new
        initial   == automata.current_state
        a1  == add_state(automata.states)
        a2  == add_state(a1.states)
        a3  == add_state(a2.states)
        a4  == add_state(a3.states)
        a5  == add_state(a4.states)
        a6  == add_state(a5.states)
        mul_1 == a1.ret
        mul_2 == a2.ret
        mul_3 == a3.ret
        mul_4 == a4.ret
        mul_5 == a5.ret
        mul_6 == a6.ret
        t0 == [states |-> a6.states, result |-> "Ok"]
        t1 == try_add_transition(t0, mul_1, "is_u", mul_2)
        t2 == try_add_transition(t1, mul_2, "is_l", mul_3)
        t3 == try_add_transition(t2, mul_3, "is_lparen", mul_4)
        t4 == try_add_transition(t3, mul_4, "is_digit", mul_4)
        t5 == try_add_transition(t4, mul_4, "is_comma", mul_5)
        t6 == try_add_transition(t5, mul_5, "is_digit", mul_5)
        t7 == try_add_transition(t6, mul_5, "is_rparen", mul_6)
        b1 == add_state(t7.states)
        b2 == add_state(b1.states)
        b3 == add_state(b2.states)
        b4 == add_state(b3.states)
        b5 == add_state(b4.states)
        b6 == add_state(b5.states)
        b7 == add_state(b6.states)
        b8 == add_state(b7.states)
        b9 == add_state(b8.states)
        do_dont_1 == b1.ret
        do_dont_2 == b2.ret
        do_1      == b3.ret
        do_2      == b4.ret
        dont_1    == b5.ret
        dont_2    == b6.ret
        dont_3    == b7.ret
        dont_4    == b8.ret
        dont_5    == b9.ret
        u0 == [states |-> b9.states, result |-> t7.result]
        u1 == try_add_transition(u0, do_dont_1, "is_o", do_dont_2)
        u2 == try_add_transition(u1, do_dont_2, "is_lparen", do_1)
        u3 == try_add_transition(u2, do_dont_2, "is_n", dont_1)
        u4 == try_add_transition(u3, do_1, "is_rparen", do_2)
        u5 == try_add_transition(u4, dont_1, "is_quote", dont_2)
        u6 == try_add_transition(u5, dont_2, "is_t", dont_3)
        u7 == try_add_transition(u6, dont_3, "is_lparen", dont_4)
        u8 == try_add_transition(u7, dont_4, "is_rparen", dont_5)
        v1 == try_add_transition_all(u8, "is_m", mul_1)
        v2 == try_add_transition_all(v1, "is_d", do_dont_1)
        v3 == try_add_transition_all(v2, "always", initial)
    IN  [result  |-> v3.result,
         machine |->
           [parser_state |-> [current_state |-> automata.current_state,
                              states |-> v3.states],
            mul_end   |-> mul_6,
            mul_start |-> mul_1,
            n1_state  |-> mul_4,
            n2_state  |-> mul_5,
            do_end    |-> do_2,
            dont_end  |-> dont_5,
            active      |-> TRUE,
            sum_of_muls |-> 0,
            n1 |-> 0,
            n2 |-> 0]]

\* A slip that adds the digit to n2 without shifting the digits before.
Day03_transition_n2_unshifted(machine, byte) ==
    LET r == transition(machine.parser_state.current_state,
                        machine.parser_state.states, byte)
        cur == r.current_state
        m == [machine EXCEPT !.parser_state.current_state = cur]
        out ==
          IF cur = m.mul_end /\ m.active
            THEN [m EXCEPT !.sum_of_muls = add_u32(@, mul_u32(m.n1, m.n2))]
          ELSE IF cur = m.mul_start THEN [m EXCEPT !.n1 = 0, !.n2 = 0]
          ELSE IF cur = m.do_end THEN [m EXCEPT !.active = TRUE]
          ELSE IF cur = m.dont_end THEN [m EXCEPT !.active = FALSE]
          ELSE IF cur = m.n1_state /\ byte # 40
            THEN [m EXCEPT !.n1 = add_u32(mul_u32(@, 10), byte - 48)]
          ELSE IF cur = m.n2_state /\ byte # 44
            THEN [m EXCEPT !.n2 = add_u32(@, byte - 48)]
          ELSE m
    IN  IF r.result # "Ok"
        THEN [machine |-> machine, status |-> "panic"]
        ELSE IF u32_status(out.sum_of_muls, out.n1, out.n2) # "running"
        THEN [machine |-> machine,
              status |-> u32_status(out.sum_of_muls, out.n1, out.n2)]
        ELSE [machine |-> out, status |-> "running"]

\* A slip that adds the product whether or not active is true.
Day03_transition_ignoring_active(machine, byte) ==
    LET r == transition(machine.parser_state.current_state,
                        machine.parser_state.states, byte)
        cur == r.current_state
        m == [machine EXCEPT !.parser_state.current_state = cur]
        out ==
          IF cur = m.mul_end
            THEN [m EXCEPT !.sum_of_muls = add_u32(@, mul_u32(m.n1, m.n2))]
          ELSE IF cur = m.mul_start THEN [m EXCEPT !.n1 = 0, !.n2 = 0]
          ELSE IF cur = m.do_end THEN [m EXCEPT !.active = TRUE]
          ELSE IF cur = m.dont_end THEN [m EXCEPT !.active = FALSE]
          ELSE IF cur = m.n1_state /\ byte # 40
            THEN [m EXCEPT !.n1 = add_u32(mul_u32(@, 10), byte - 48)]
          ELSE IF cur = m.n2_state /\ byte # 44
            THEN [m EXCEPT !.n2 = add_u32(mul_u32(@, 10), byte - 48)]
          ELSE m
    IN  IF r.result # "Ok"
        THEN [machine |-> machine, status |-> "panic"]
        ELSE IF u32_status(out.sum_of_muls, out.n1, out.n2) # "running"
        THEN [machine |-> machine,
              status |-> u32_status(out.sum_of_muls, out.n1, out.n2)]
        ELSE [machine |-> out, status |-> "running"]

\* A slip that flips active on do() where it should set it.
Day03_transition_toggling(machine, byte) ==
    LET r == transition(machine.parser_state.current_state,
                        machine.parser_state.states, byte)
        cur == r.current_state
        m == [machine EXCEPT !.parser_state.current_state = cur]
        out ==
          IF cur = m.mul_end /\ m.active
            THEN [m EXCEPT !.sum_of_muls = add_u32(@, mul_u32(m.n1, m.n2))]
          ELSE IF cur = m.mul_start THEN [m EXCEPT !.n1 = 0, !.n2 = 0]
          ELSE IF cur = m.do_end THEN [m EXCEPT !.active = ~@]
          ELSE IF cur = m.dont_end THEN [m EXCEPT !.active = FALSE]
          ELSE IF cur = m.n1_state /\ byte # 40
            THEN [m EXCEPT !.n1 = add_u32(mul_u32(@, 10), byte - 48)]
          ELSE IF cur = m.n2_state /\ byte # 44
            THEN [m EXCEPT !.n2 = add_u32(mul_u32(@, 10), byte - 48)]
          ELSE m
    IN  IF r.result # "Ok"
        THEN [machine |-> machine, status |-> "panic"]
        ELSE IF u32_status(out.sum_of_muls, out.n1, out.n2) # "running"
        THEN [machine |-> machine,
              status |-> u32_status(out.sum_of_muls, out.n1, out.n2)]
        ELSE [machine |-> out, status |-> "running"]

\* A slip that leaves the operands alone when a new mul starts.
Day03_transition_keeping_operands(machine, byte) ==
    LET r == transition(machine.parser_state.current_state,
                        machine.parser_state.states, byte)
        cur == r.current_state
        m == [machine EXCEPT !.parser_state.current_state = cur]
        out ==
          IF cur = m.mul_end /\ m.active
            THEN [m EXCEPT !.sum_of_muls = add_u32(@, mul_u32(m.n1, m.n2))]
          ELSE IF cur = m.do_end THEN [m EXCEPT !.active = TRUE]
          ELSE IF cur = m.dont_end THEN [m EXCEPT !.active = FALSE]
          ELSE IF cur = m.n1_state /\ byte # 40
            THEN [m EXCEPT !.n1 = add_u32(mul_u32(@, 10), byte - 48)]
          ELSE IF cur = m.n2_state /\ byte # 44
            THEN [m EXCEPT !.n2 = add_u32(mul_u32(@, 10), byte - 48)]
          ELSE m
    IN  IF r.result # "Ok"
        THEN [machine |-> machine, status |-> "panic"]
        ELSE IF u32_status(out.sum_of_muls, out.n1, out.n2) # "running"
        THEN [machine |-> machine,
              status |-> u32_status(out.sum_of_muls, out.n1, out.n2)]
        ELSE [machine |-> out, status |-> "running"]

\* Machine::transition of day 3: [machine, status]. Status "panic" is the
\* expect() on the result of the automaton, "overflow" a sum or product
\* out of the range.
Day03_transition(machine, byte) ==
    LET r == transition(machine.parser_state.current_state,
                        machine.parser_state.states, byte)
        cur == r.current_state
        m == [machine EXCEPT !.parser_state.current_state = cur]
        out ==
          IF cur = m.mul_end /\ m.active
            THEN [m EXCEPT !.sum_of_muls = add_u32(@, mul_u32(m.n1, m.n2))]
          ELSE IF cur = m.mul_start THEN [m EXCEPT !.n1 = 0, !.n2 = 0]
          ELSE IF cur = m.do_end THEN [m EXCEPT !.active = TRUE]
          ELSE IF cur = m.dont_end THEN [m EXCEPT !.active = FALSE]
          ELSE IF cur = m.n1_state /\ byte # 40
            THEN [m EXCEPT !.n1 = add_u32(mul_u32(@, 10), byte - 48)]
          ELSE IF cur = m.n2_state /\ byte # 44
            THEN [m EXCEPT !.n2 = add_u32(mul_u32(@, 10), byte - 48)]
          ELSE m
    IN  IF r.result # "Ok"
        THEN [machine |-> machine, status |-> "panic"]
        ELSE IF u32_status(out.sum_of_muls, out.n1, out.n2) # "running"
        THEN [machine |-> machine,
              status |-> u32_status(out.sum_of_muls, out.n1, out.n2)]
        ELSE [machine |-> out, status |-> "running"]

\* The bytes of "xmul(2,50)".
Input_xmul_2_50 ==
    <<120, 109, 117, 108, 40, 50, 44, 53, 48, 41>>

\* The bytes test_build_machine_simple_mul feeds: "mul(2,50)".
Input_simple_mul ==
    <<109, 117, 108, 40, 50, 44, 53, 48, 41>>

\* The bytes test_build_machine_mul_starting_different_place feeds.
Input_mul_starting_different_place ==
    <<109, 117, 108, 40, 103, 97, 114, 98, 109, 117, 108, 40, 50, 44, 53,
      48, 41>>

\* The bytes test_build_machine_do_and_dont feeds.
Input_do_and_dont ==
    <<109, 117, 108, 40, 100, 111, 110, 39, 116, 40, 41, 100, 111, 40, 100,
      111, 40, 41>>

\* The bytes test_build_machine_large_example feeds.
Input_large_example ==
    <<97, 115, 100, 102, 97, 109, 117, 108, 40, 109, 117, 108, 40, 50, 44,
      52, 41, 100, 111, 110, 116, 40, 41, 109, 117, 108, 40, 51, 44, 49,
      41, 97, 115, 100, 102, 100, 111, 110, 39, 116, 40, 41, 109, 117, 108,
      40, 49, 48, 48, 44, 49, 48, 48, 41, 100, 97, 102, 100, 111, 100, 111,
      40, 100, 111, 40, 41, 109, 117, 108, 40, 55, 44, 55, 41, 97, 115,
      102, 100>>

\* Pieces the inputs are put together from: "mul(2,4)", "mul(", "3,5)",
\* "7", "do()", "don't()", "don't", "x", "65536,65536)" (operands that fit
\* in u32 with a product that does not) and "9999999999,1)" (an operand
\* that does not fit in u32).
Tokens ==
    { <<109, 117, 108, 40, 50, 44, 52, 41>>,
      <<109, 117, 108, 40>>,
      <<51, 44, 53, 41>>,
      <<55>>,
      <<100, 111, 40, 41>>,
      <<100, 111, 110, 39, 116, 40, 41>>,
      <<100, 111, 110, 39, 116>>,
      <<120>>,
      <<54, 53, 53, 51, 54, 44, 54, 53, 53, 51, 54, 41>>,
      <<57, 57, 57, 57, 57, 57, 57, 57, 57, 57,
        44, 49, 41>> }

\* Number of pieces in an input.
MaxTokens == 3

\* The inputs made of exactly n pieces.
RECURSIVE TokenInputs(_)
TokenInputs(n) ==
    IF n = 0 THEN {<<>>}
    ELSE {head \o token : head \in TokenInputs(n - 1), token \in Tokens}

\* The bytes of "mul(1234,5)": an operand of four digits.
Input_four_digits ==
    <<109, 117, 108, 40, 49, 50, 51, 52, 44, 53, 41>>

\* The bytes of "mul(,)": operands without a digit.
Input_no_digits ==
    <<109, 117, 108, 40, 44, 41>>

\* The inputs the day 3 machine is driven over: those of the unit tests,
\* two with operands of other lengths than the puzzle allows, and those
\* made of up to MaxTokens pieces.
Day03Inputs ==
    {Input_xmul_2_50, Input_simple_mul, Input_mul_starting_different_place,
     Input_do_and_dont, Input_large_example, Input_four_digits,
     Input_no_digits}
      \cup UNION {TokenInputs(n) : n \in 0 .. MaxTokens}

\* The variables of the automaton and of count_xmas while the day 3
\* machine runs.
Day03Others ==
    /\ states = FiniteAutomata_new.states
    /\ current_state = FiniteAutomata_new.current_state
    /\ issued = <<>>
    /\ last = NoCall
    /\ before = NoCall
    /\ NoOther
    /\ Day04Idle
    /\ Day06Idle

Day03Init ==
    /\ Day03_build_machine.result = "Ok"
    /\ day03_machine = Day03_build_machine.machine
    /\ day03_input \in Day03Inputs
    /\ day03_fed = <<>>
    /\ day03_status = "running"
    /\ Day03Others

\* One iteration of a loop feeding the input to Machine::transition.
Day03Feed ==
    /\ day03_status = "running"
    /\ day03_input # <<>>
    /\ LET byte == Head(day03_input)
           r == Day03_transition(day03_machine, byte)
       IN  /\ day03_machine' = r.machine
           /\ day03_status' = r.status
           /\ day03_fed' = Append(day03_fed, byte)
           /\ day03_input' = Tail(day03_input)
    /\ UNCHANGED <<automata_vars, day04_vars, day06_vars>>

Day03Next == Day03Feed

Day03Spec == Day03Init /\ [][Day03Next]_vars

(* ---------------------------------------------------------------------- *)
(* Two automatons side by side: references of one are handed to the other. *)
(* ---------------------------------------------------------------------- *)

PairInit ==
    /\ states = FiniteAutomata_new.states
    /\ current_state = FiniteAutomata_new.current_state
    /\ issued = <<>>
    /\ last = Call("new", "Ok")
    /\ before = NoCall
    /\ other_states = FiniteAutomata_new.states
    /\ other_issued = <<>>
    /\ Day03Idle
    /\ Day04Idle
    /\ Day06Idle

\* add_state on the first automaton.
PairAddState ==
    /\ Len(states) < MaxStates
    /\ LET r == add_state(states)
       IN  /\ states' = r.states
           /\ issued' = Append(issued, r.ret)
           /\ last' = Call("add_state", "Ok")
    /\ before' = NoCall
    /\ UNCHANGED <<current_state, other_vars, day03_vars, day04_vars, day06_vars>>

\* add_state on the second automaton.
PairAddStateOther ==
    /\ Len(other_states) < MaxStates + 1
    /\ LET r == add_state(other_states)
       IN  /\ other_states' = r.states
           /\ other_issued' = Append(other_issued, r.ret)
    /\ last' = Call("other_add_state", "Ok")
    /\ before' = NoCall
    /\ UNCHANGED <<states, current_state, issued, day03_vars, day04_vars, day06_vars>>

\* add_transition on the first automaton, with any references as source
\* and target, those of the second automaton included.
PairAddTransition(state_ref, p, resulting_state_ref) ==
    LET r == add_transition(states, state_ref, p, resulting_state_ref)
    IN  /\ TransitionCount(r.states) <= MaxTransitions
        /\ states' = r.states
        /\ last' = Call("add_transition", r.result)
        /\ before' = NoCall
        /\ UNCHANGED <<current_state, issued, other_vars, day03_vars, day04_vars, day06_vars>>

\* The predicate does not matter to the references: one is enough.
PairPredicates == {"always"}

PairNext ==
    \/ PairAddState
    \/ PairAddStateOther
    \/ \E state_ref \in StateRefs, p \in PairPredicates,
          resulting_state_ref \in StateRefs :
            PairAddTransition(state_ref, p, resulting_state_ref)

PairSpec == PairInit /\ [][PairNext]_vars

(* ---------------------------------------------------------------------- *)
(* The Machine and count_xmas of src/day04/part1/main.rs.                  *)
(* ---------------------------------------------------------------------- *)

\* Machine::build_machine_helper of day 4: [result, machine].
Day04_build_machine_helper ==
    LET automata == FiniteAutomata_new
        initial  == automata.current_state
        a1 == add_state(automata.states)
        a2 == add_state(a1.states)
        a3 == add_state(a2.states)
        a4 == add_state(a3.states)
        a5 == add_state(a4.states)
        a6 == add_state(a5.states)
        a7 == add_state(a6.states)
        a8 == add_state(a7.states)
        xmas1 == a1.ret
        xmas2 == a2.ret
        xmas3 == a3.ret
        xmas4 == a4.ret
        samx1 == a5.ret
        samx2 == a6.ret
        samx3 == a7.ret
        samx4 == a8.ret
        t0 == [states |-> a8.states, result |-> "Ok"]
        t1 == try_add_transition(t0, xmas1, "is_M", xmas2)
        t2 == try_add_transition(t1, xmas2, "is_A", xmas3)
        t3 == try_add_transition(t2, xmas3, "is_S", xmas4)
        t4 == try_add_transition(t3, xmas4, "is_A", samx2)
        t5 == try_add_transition(t4, samx1, "is_A", samx2)
        t6 == try_add_transition(t5, samx2, "is_M", samx3)
        t7 == try_add_transition(t6, samx3, "is_X", samx4)
        t8 == try_add_transition(t7, samx4, "is_M", xmas2)
        v1 == try_add_transition_all(t8, "is_X", xmas1)
        v2 == try_add_transition_all(v1, "is_S", samx1)
        v3 == try_add_transition_all(v2, "always", initial)
    IN  [result  |-> v3.result,
         machine |->
           [parser_state |-> [current_state |-> automata.current_state,
                              states |-> v3.states],
            xmas_end |-> xmas4,
            samx_end |-> samx4,
            count    |-> 0]]

\* Machine::build_machine of day 4: [machine, status]; "panic" is the
\* expect() on the result of build_machine_helper.
Day04_build_machine ==
    [machine |-> Day04_build_machine_helper.machine,
     status  |-> IF Day04_build_machine_helper.result = "Ok"
                 THEN "running" ELSE "panic"]

\* A slip that counts the end of SAMX only.
Day04_transition_samx_only(machine, byte) ==
    LET r == transition(machine.parser_state.current_state,
                        machine.parser_state.states, byte)
        cur == r.current_state
        m == [machine EXCEPT !.parser_state.current_state = cur]
    IN  IF r.result # "Ok"
        THEN [machine |-> machine, status |-> "panic"]
        ELSE IF cur = m.samx_end
        THEN [machine |-> [m EXCEPT !.count = add_u32(@, 1)],
              status |-> "running"]
        ELSE [machine |-> m, status |-> "running"]

\* A slip that starts over after a word: having counted, the automaton is
\* put back in its initial state.
Day04_transition_restarting(machine, byte) ==
    LET r == transition(machine.parser_state.current_state,
                        machine.parser_state.states, byte)
        cur == r.current_state
        m == [machine EXCEPT !.parser_state.current_state = cur]
    IN  IF r.result # "Ok"
        THEN [machine |-> machine, status |-> "panic"]
        ELSE IF cur = m.xmas_end \/ cur = m.samx_end
        THEN [machine |-> [m EXCEPT !.count = add_u32(@, 1),
                                    !.parser_state.current_state = 0],
              status |-> "running"]
        ELSE [machine |-> m, status |-> "running"]

\* Machine::transition of day 4: [machine, status]; "panic" is the
\* expect() on the result of the automaton.
Day04_transition(machine, byte) ==
    LET r == transition(machine.parser_state.current_state,
                        machine.parser_state.states, byte)
        cur == r.current_state
        m == [machine EXCEPT !.parser_state.current_state = cur]
    IN  IF r.result # "Ok"
        THEN [machine |-> machine, status |-> "panic"]
        ELSE IF cur = m.xmas_end \/ cur = m.samx_end
        THEN [machine |-> [m EXCEPT !.count = add_u32(@, 1)],
              status |-> "running"]
        ELSE [machine |-> m, status |-> "running"]

\* A slip that lets every machine see the byte, as if the lanes shared
\* one automaton.
feed_shared(ms, index, byte) ==
    IF index >= Len(ms)
    THEN [machines |-> ms, status |-> "panic"]
    ELSE [machines |-> [k \in 1 .. Len(ms) |->
                          Day04_transition(ms[k], byte).machine],
          status |-> Day04_transition(ms[index + 1], byte).status]

\* let lane = &mut machines[index]; lane.transition(byte): [machines,
\* status]; "panic" is an index out of the vector (a usize that went below
\* zero included) or a failed expect().
feed(ms, index, byte) ==
    IF index < 0 \/ index >= Len(ms)
    THEN [machines |-> ms, status |-> "panic"]
    ELSE LET r == Day04_transition(ms[index + 1], byte)
         IN  [machines |-> [ms EXCEPT ![index + 1] = r.machine],
              status |-> r.status]

(* ---------------------------------------------------------------------- *)
(* Several machines side by side, as count_xmas keeps them: each is fed   *)
(* through its own index.                                                  *)
(* ---------------------------------------------------------------------- *)

\* Number of machines kept side by side.
Lanes == 2

\* Total number of bytes fed to the machines of one run.
MaxFeed == 4

\* The letters of the puzzle and one other byte: X, M, A, S and '.'.
Day04Bytes == {88, 77, 65, 83, 46}

\* The automaton of the first part and the day 3 program stay as built.
Day04Others ==
    /\ states = FiniteAutomata_new.states
    /\ current_state = FiniteAutomata_new.current_state
    /\ issued = <<>>
    /\ last = NoCall
    /\ before = NoCall
    /\ NoOther
    /\ Day03Idle
    /\ Day06Idle

\* vec![Machine::build_machine(); size] with size = Lanes.
LaneInit ==
    /\ Day04_build_machine.status = "running"
    /\ machines = [k \in 1 .. Lanes |-> Day04_build_machine.machine]
    /\ fed = [k \in 1 .. Lanes |-> <<>>]
    /\ array = <<>>
    /\ cell = <<>>
    /\ sum = 0
    /\ day04_status = "running"
    /\ Day04Others

RECURSIVE TotalFed(_, _)
TotalFed(f, k) ==
    IF k = 0 THEN 0 ELSE Len(f[k]) + TotalFed(f, k - 1)

\* machines[index].transition(byte)
LaneFeed(index, byte) ==
    /\ day04_status = "running"
    /\ TotalFed(fed, Len(fed)) < MaxFeed
    /\ LET r == feed(machines, index, byte)
       IN  /\ machines' = r.machines
           /\ day04_status' = r.status
    /\ fed' = [fed EXCEPT ![index + 1] = Append(@, byte)]
    /\ UNCHANGED <<array, cell, sum, automata_vars, day03_vars, day06_vars>>

LaneNext ==
    \E index \in 0 .. Lanes - 1, byte \in Day04Bytes : LaneFeed(index, byte)

LaneSpec == LaneInit /\ [][LaneNext]_vars

(* ---------------------------------------------------------------------- *)
(* count_xmas of src/day04/part1/main.rs, one step per cell.               *)
(* ---------------------------------------------------------------------- *)

\* The bytes X, M, A, S.
Word_XMAS == <<88, 77, 65, 83>>

\* Number of words written into a grid of the input family.
MaxWords == 2

\* Rows and columns of the grids words are written into; <<1, 0>> is one
\* row without cells.
Shapes == {<<0, 0>>, <<1, 0>>, <<1, 7>>, <<4, 1>>, <<4, 4>>}

\* Shapes with more rows than columns and more columns than rows, on which
\* a single word is written.
OblongShapes == {<<4, 5>>, <<5, 4>>}

\* The eight directions a word can run in.
Directions ==
    {<<0, 1>>, <<0, -1>>, <<1, 0>>, <<-1, 0>>,
     <<1, 1>>, <<-1, -1>>, <<1, -1>>, <<-1, 1>>}

\* A grid of '.' bytes.
Blank(shape) == [i \in 1 .. shape[1] |-> [j \in 1 .. shape[2] |-> 46]]

\* TRUE iff a word starting at row i, column j (from 1) in direction d
\* lies within the shape.
Fits(shape, i, j, d) ==
    \A k \in 0 .. Len(Word_XMAS) - 1 :
      /\ i + k * d[1] >= 1 /\ i + k * d[1] <= shape[1]
      /\ j + k * d[2] >= 1 /\ j + k * d[2] <= shape[2]

Placements(shape) ==
    {pl \in (1 .. shape[1]) \X (1 .. shape[2]) \X Directions :
       Fits(shape, pl[1], pl[2], pl[3])}

\* The grid with the word written over it at a placement.
Place(grid, pl) ==
    [i \in 1 .. Len(grid) |-> [j \in 1 .. Len(grid[i]) |->
       IF \E k \in 0 .. Len(Word_XMAS) - 1 :
            i = pl[1] + k * pl[3][1] /\ j = pl[2] + k * pl[3][2]
       THEN Word_XMAS[(CHOOSE k \in 0 .. Len(Word_XMAS) - 1 :
              i = pl[1] + k * pl[3][1] /\ j = pl[2] + k * pl[3][2]) + 1]
       ELSE grid[i][j]]]

\* The grids of a shape with up to n words written over '.' bytes.
RECURSIVE GridsOf(_, _)
GridsOf(shape, n) ==
    IF n = 0 THEN {Blank(shape)}
    ELSE LET fewer == GridsOf(shape, n - 1)
         IN  fewer \cup {Place(g, pl) : g \in fewer, pl \in Placements(shape)}

Grid_test_count_xmas_1 ==
    << <<46, 46, 88, 46, 46, 46>>,
       <<46, 83, 65, 77, 88, 46>>,
       <<46, 65, 46, 46, 65, 46>>,
       <<88, 77, 65, 83, 46, 83>>,
       <<46, 88, 46, 46, 46, 46>> >>

Grid_test_count_xmas_2 ==
    << <<77, 77, 77, 83, 88, 88, 77, 65, 83, 77>>,
       <<77, 83, 65, 77, 88, 77, 83, 77, 83, 65>>,
       <<65, 77, 88, 83, 88, 77, 65, 65, 77, 77>>,
       <<77, 83, 65, 77, 65, 83, 77, 83, 77, 88>>,
       <<88, 77, 65, 83, 65, 77, 88, 65, 77, 77>>,
       <<88, 88, 65, 77, 77, 88, 88, 65, 77, 65>>,
       <<83, 77, 83, 77, 83, 65, 83, 88, 83, 83>>,
       <<83, 65, 88, 65, 77, 65, 83, 65, 65, 65>>,
       <<77, 65, 77, 77, 77, 88, 77, 77, 77, 77>>,
       <<77, 88, 77, 88, 65, 88, 77, 65, 83, 88>> >>

\* The rectangular grids count_xmas is run on.
Grids ==
    UNION {GridsOf(shape, MaxWords) : shape \in Shapes}
      \cup UNION {GridsOf(shape, 1) : shape \in OblongShapes}
      \cup {Grid_test_count_xmas_1, Grid_test_count_xmas_2}

\* The first cell at or after row i, column j (from 0) in loop order;
\* <<rows, 0>> when the loops are over.
RECURSIVE loop_position(_, _, _)
loop_position(arr, i, j) ==
    IF i >= Len(arr) THEN <<Len(arr), 0>>
    ELSE IF j < Len(arr[i + 1]) THEN <<i, j>>
    ELSE loop_position(arr, i + 1, 0)

\* A slip that numbers the second family of diagonals with the rows in
\* place of the columns.
cell_machines_by_rows(rows, columns, diagonals_half, i, j) ==
    <<i, rows + j, rows + columns + i + j,
      rows + columns + diagonals_half + (rows + i - j - 1)>>

\* The indices of the four machines cell (i, j) is fed to: row, column,
\* diag_1 and diag_2.
cell_machines(rows, columns, diagonals_half, i, j) ==
    <<i, rows + j, rows + columns + i + j,
      rows + columns + diagonals_half + (columns + i - j - 1)>>

\* A slip that leaves diagonals_half out of the index of diag_2, so the
\* two families of diagonals share machines.
count_xmas_cell_shared_diagonals(ms, rows, columns, diagonals_half, i, j, byte) ==
    LET f1 == feed(ms, i, byte)
        f2 == feed(f1.machines, rows + j, byte)
        f3 == feed(f2.machines, rows + columns + i + j, byte)
        index == columns + i - j - 1
        f4 == feed(f3.machines, rows + columns + index, byte)
    IN  IF f1.status # "running" THEN f1
        ELSE IF f2.status # "running" THEN f2
        ELSE IF f3.status # "running" THEN f3
        ELSE IF columns + i < j + 1 THEN [f3 EXCEPT !.status = "panic"]
        ELSE f4

\* The body of the inner loop of count_xmas for cell (i, j): [machines,
\* status]; "panic" is an index out of the vector, the usize subtraction
\* going below zero, or a failed expect().
count_xmas_cell(ms, rows, columns, diagonals_half, i, j, byte) ==
    LET to == cell_machines(rows, columns, diagonals_half, i, j)
        f1 == feed(ms, to[1], byte)
        f2 == feed(f1.machines, to[2], byte)
        f3 == feed(f2.machines, to[3], byte)
        f4 == feed(f3.machines, to[4], byte)
    IN  IF f1.status # "running" THEN f1
        ELSE IF f2.status # "running" THEN f2
        ELSE IF f3.status # "running" THEN f3
        ELSE IF columns + i < j + 1 THEN [f3 EXCEPT !.status = "panic"]
        ELSE f4

\* sum = sum + machine.count over the first k machines; -1 is a sum
\* outside the range of the integer.
RECURSIVE sum_counts(_, _)
sum_counts(ms, k) ==
    IF k = 0 THEN 0 ELSE add_u32(sum_counts(ms, k - 1), ms[k].count)

GridInit ==
    /\ array \in Grids
    /\ machines = <<>>
    /\ fed = <<>>
    /\ cell = <<0, 0>>
    /\ sum = 0
    /\ day04_status = "start"
    /\ Day04Others

\* count_xmas up to its loops: the early return for no rows, or the
\* vector of machines.
CountStart ==
    /\ day04_status = "start"
    /\ LET rows == Len(array)
       IN  IF rows = 0
           THEN /\ day04_status' = "done"
                /\ UNCHANGED <<machines, fed, cell, sum>>
           ELSE LET columns == Len(array[1])
                    diagonals_half == rows + columns - 1
                    diagonals == diagonals_half * 2
                    size == rows + columns + diagonals
                IN  /\ machines' = [k \in 1 .. size |-> Day04_build_machine.machine]
                    /\ fed' = [k \in 1 .. size |-> <<>>]
                    /\ cell' = loop_position(array, 0, 0)
                    /\ day04_status' = Day04_build_machine.status
                    /\ UNCHANGED sum
    /\ UNCHANGED <<array, automata_vars, day03_vars, day06_vars>>

\* One pass of the body of the inner loop.
CountCell ==
    /\ day04_status = "running"
    /\ cell[1] < Len(array)
    /\ LET rows == Len(array)
           columns == Len(array[1])
           diagonals_half == rows + columns - 1
           i == cell[1]
           j == cell[2]
           byte == array[i + 1][j + 1]
           r == count_xmas_cell(machines, rows, columns, diagonals_half, i, j, byte)
           to == cell_machines(rows, columns, diagonals_half, i, j)
       IN  /\ machines' = r.machines
           /\ day04_status' = r.status
           /\ fed' = [k \in 1 .. Len(fed) |->
                        IF \E n \in 1 .. Len(to) : to[n] = k - 1
                        THEN Append(fed[k], byte) ELSE fed[k]]
           /\ cell' = loop_position(array, i, j + 1)
    /\ UNCHANGED <<array, sum, automata_vars, day03_vars, day06_vars>>

\* The loop over the machines' counts and the return.
CountSum ==
    /\ day04_status = "running"
    /\ cell[1] = Len(array)
    /\ LET total == sum_counts(machines, Len(machines))
       IN  IF total < 0
           THEN /\ day04_status' = "panic"
                /\ UNCHANGED sum
           ELSE /\ day04_status' = "done"
                /\ sum' = total
    /\ UNCHANGED <<array, machines, fed, cell, automata_vars, day03_vars, day06_vars>>

GridNext == CountStart \/ CountCell \/ CountSum

GridSpec == GridInit /\ [][GridNext]_vars

(* ---------------------------------------------------------------------- *)
(* The two machines probed: one byte of the whole range, from each state   *)
(* of their automatons.                                                    *)
(* ---------------------------------------------------------------------- *)

\* The values of a u8.
AllBytes == 0 .. 255

\* The machine with its automaton put in a given state.
InState(machine, state_ref) ==
    [machine EXCEPT !.parser_state.current_state = state_ref]

\* The machine after a loop of Machine::transition over the bytes.
RECURSIVE Day03_run(_, _)
Day03_run(machine, bytes) ==
    IF bytes = <<>> THEN machine
    ELSE Day03_run(Day03_transition(machine, Head(bytes)).machine, Tail(bytes))

\* What the day 3 machine has read before the probe: nothing, or
\* "mul(12,5)", which leaves both operands set.
ProbeHistories ==
    {<<>>, <<109, 117, 108, 40, 49, 50, 44, 53, 41>>}

\* Bytes that lead from any state to each of the sixteen states of the
\* day 3 automaton: the prefixes of "mul(3,4)", "do()" and "don't()", and
\* "x" for the initial state.
ProbePaths ==
    {<<>>,
     <<109>>,
     <<109, 117>>,
     <<109, 117, 108>>,
     <<109, 117, 108, 40>>,
     <<109, 117, 108, 40, 51>>,
     <<109, 117, 108, 40, 51, 44>>,
     <<109, 117, 108, 40, 51, 44, 52>>,
     <<109, 117, 108, 40, 51, 44, 52, 41>>,
     <<100>>,
     <<100, 111>>,
     <<100, 111, 40>>,
     <<100, 111, 40, 41>>,
     <<100, 111, 110>>,
     <<100, 111, 110, 39>>,
     <<100, 111, 110, 39, 116>>,
     <<100, 111, 110, 39, 116, 40>>,
     <<100, 111, 110, 39, 116, 40, 41>>,
     <<120>>}

\* The byte sequences after which the day 3 machine is probed.
ProbePrefixes ==
    {history \o path : history \in ProbeHistories, path \in ProbePaths}

ProbeInit ==
    \/ /\ Day03_build_machine.result = "Ok"
       /\ \E prefix \in ProbePrefixes :
            day03_machine = Day03_run(Day03_build_machine.machine, prefix)
       /\ day03_input \in {<<byte>> : byte \in AllBytes}
       /\ day03_fed = <<>>
       /\ day03_status = "running"
       /\ Day03Others
    \/ /\ Day04_build_machine.status = "running"
       /\ \E state_ref \in 0 .. Len(Day04_build_machine.machine.parser_state.states) - 1 :
            machines = <<InState(Day04_build_machine.machine, state_ref)>>
       /\ fed = << <<>> >>
       /\ array = <<>>
       /\ cell = <<>>
       /\ sum = 0
       /\ day04_status = "running"
       /\ Day04Others

\* Machine::transition of day 4 on a machine that has not been fed yet.
ProbeDay04(byte) ==
    /\ Len(fed) = 1
    /\ fed[1] = <<>>
    /\ LaneFeed(0, byte)

ProbeNext ==
    \/ Day03Feed
    \/ \E byte \in AllBytes : ProbeDay04(byte)

ProbeSpec == ProbeInit /\ [][ProbeNext]_vars

(* ---------------------------------------------------------------------- *)
(* One day 4 machine fed every byte sequence up to a length.               *)
(* ---------------------------------------------------------------------- *)

\* Number of bytes fed to the machine.
MaxBytes == 7

WordInit ==
    /\ Day04_build_machine.status = "running"
    /\ machines = <<Day04_build_machine.machine>>
    /\ fed = << <<>> >>
    /\ array = <<>>
    /\ cell = <<>>
    /\ sum = 0
    /\ day04_status = "running"
    /\ Day04Others

\* machine.transition(byte)
WordFeed(byte) ==
    /\ day04_status = "running"
    /\ Len(fed[1]) < MaxBytes
    /\ LET r == feed(machines, 0, byte)
       IN  /\ machines' = r.machines
           /\ day04_status' = r.status
    /\ fed' = [fed EXCEPT ![1] = Append(@, byte)]
    /\ UNCHANGED <<array, cell, sum, automata_vars, day03_vars, day06_vars>>

WordNext == \E byte \in Day04Bytes : WordFeed(byte)

WordSpec == WordInit /\ [][WordNext]_vars

(* ---------------------------------------------------------------------- *)
(* The guard and the lab of src/day06/part2/main.rs. A Position is a pair  *)
(* <<x, y>>; an Option<Position> is the set of at most one position.       *)
(* ---------------------------------------------------------------------- *)

\* enum Direction.
Direction == {"North", "East", "South", "West"}

\* in_bounds.
in_bounds(l, position) ==
    LET x == position[1]
        y == position[2]
    IN  x >= 0 /\ x <= l.x_max /\ y >= 0 /\ y <= l.y_max

\* move_position.
move_position(position, direction) ==
    LET x == position[1]
        y == position[2]
    IN  CASE direction = "North" -> <<x, y - 1>>
          [] direction = "East"  -> <<x + 1, y>>
          [] direction = "South" -> <<x, y + 1>>
          [] direction = "West"  -> <<x - 1, y>>

\* turn_right.
turn_right(direction) ==
    CASE direction = "North" -> "East"
      [] direction = "East"  -> "South"
      [] direction = "South" -> "West"
      [] direction = "West"  -> "North"

\* A slip that looks at the obstructions of the lab only.
move_guard_ignoring_extra(l, g) ==
    LET new_pos == move_position(g.guard_position, g.guard_direction)
    IN  IF new_pos \in l.obstructions
        THEN [guard  |-> [g EXCEPT !.guard_direction = turn_right(@)],
              action |-> "Turn"]
        ELSE [guard  |-> [g EXCEPT !.guard_position = new_pos],
              action |-> "Move"]

\* move_guard: the guard after the call and the Action returned.
move_guard(l, g) ==
    LET new_pos == move_position(g.guard_position, g.guard_direction)
    IN  IF new_pos \in l.extra_obstruction \/ new_pos \in l.obstructions
        THEN [guard  |-> [g EXCEPT !.guard_direction = turn_right(@)],
              action |-> "Turn"]
        ELSE [guard  |-> [g EXCEPT !.guard_position = new_pos],
              action |-> "Move"]

\* The while loop of detect_loop from a guard and a set of turns.
RECURSIVE detect_loop_from(_, _, _)
detect_loop_from(l, g, seen) ==
    IF ~in_bounds(l, g.guard_position) THEN FALSE
    ELSE LET r == move_guard(l, g)
         IN  IF r.action = "Turn"
             THEN IF r.guard \in seen THEN TRUE
                  ELSE detect_loop_from(l, r.guard, seen \cup {r.guard})
             ELSE detect_loop_from(l, r.guard, seen)

\* detect_loop.
detect_loop(l, g) == detect_loop_from(l, g, {})

(* ---------------------------------------------------------------------- *)
(* Labs and guards.                                                        *)
(* ---------------------------------------------------------------------- *)

\* The most obstructions a small lab holds.
MaxObstructions == 3

\* The positions of a lab.
Cells(x_max, y_max) == (0 .. x_max) \X (0 .. y_max)

\* x_max and y_max of the small labs.
LabSizes == {<<2, 2>>}

\* The small labs, as read_lab builds them: no extra obstruction.
SmallLabs ==
    UNION {{[x_max |-> size[1], y_max |-> size[2], obstructions |-> o,
             extra_obstruction |-> {}] :
               o \in {c \in SUBSET Cells(size[1], size[2]) :
                         Cardinality(c) <= MaxObstructions}} :
           size \in LabSizes}

\* The lab of test_find_obstructions_producing_cycles, test_move_guard_1
\* and test_detect_loop_1.
Lab_test_1 ==
    [x_max |-> 9, y_max |-> 9,
     obstructions |-> {<<4, 0>>, <<9, 1>>, <<2, 3>>, <<7, 4>>, <<1, 6>>,
                       <<8, 7>>, <<0, 8>>, <<6, 9>>},
     extra_obstruction |-> {}]

\* The lab of test_detect_loop_2: one more obstruction at (6, 7).
Lab_test_detect_loop_2 ==
    [Lab_test_1 EXCEPT !.obstructions = @ \cup {<<6, 7>>}]

\* The guard of those tests.
Guard_test == [guard_position |-> <<4, 6>>, guard_direction |-> "North"]

\* The inputs read_lab returns on the small labs: the guard on a position
\* free of obstruction, heading North.
SmallInputs ==
    {input \in [lab : SmallLabs,
                guard : [guard_position : UNION {Cells(size[1], size[2]) :
                                                   size \in LabSizes},
                         guard_direction : {"North"}]] :
        /\ in_bounds(input.lab, input.guard.guard_position)
        /\ input.guard.guard_position \notin input.lab.obstructions}

\* The inputs of the tests.
TestInputs ==
    {[lab |-> Lab_test_1, guard |-> Guard_test],
     [lab |-> Lab_test_detect_loop_2, guard |-> Guard_test]}

Day06Inputs == SmallInputs \cup TestInputs

\* The values lab.extra_obstruction takes in a lab.
Extras(l) == {{}} \cup {{c} : c \in Cells(l.x_max, l.y_max)}

\* The variables of the automaton and of the machines while the day 6
\* functions run.
Day06Others ==
    /\ states = FiniteAutomata_new.states
    /\ current_state = FiniteAutomata_new.current_state
    /\ issued = <<>>
    /\ last = NoCall
    /\ before = NoCall
    /\ NoOther
    /\ Day03Idle
    /\ Day04Idle

(* ---------------------------------------------------------------------- *)
(* find_obstructions_producing_cycles, one action per turn of its loop.    *)
(* ---------------------------------------------------------------------- *)

FindInit ==
    /\ \E input \in Day06Inputs :
         /\ lab = input.lab
         /\ initial_guard = input.guard
         /\ guard = input.guard
    /\ turns = {}
    /\ obstructions = {}
    /\ day06_pc = "find"
    /\ Day06Others

\* One turn of the loop: move_guard, the return once the guard is out of
\* the lab, and after a Move the trial of the extra obstruction, which is
\* taken away again before the turn ends.
FindStep ==
    /\ day06_pc = "find"
    /\ LET r == move_guard(lab, guard)
           tried == [lab EXCEPT !.extra_obstruction = {r.guard.guard_position}]
       IN  /\ guard' = r.guard
           /\ IF ~in_bounds(lab, r.guard.guard_position)
              THEN /\ day06_pc' = "returned"
                   /\ UNCHANGED obstructions
              ELSE /\ day06_pc' = "find"
                   /\ obstructions' =
                        IF r.action = "Move" /\ detect_loop(tried, initial_guard)
                        THEN obstructions \cup {r.guard.guard_position}
                        ELSE obstructions
    /\ UNCHANGED <<lab, initial_guard, turns>>
    /\ UNCHANGED <<automata_vars, day03_vars, day04_vars>>

FindNext == FindStep

FindSpec == FindInit /\ [][FindNext]_vars

(* ---------------------------------------------------------------------- *)
(* detect_loop, one action per turn of its loop.                           *)
(* ---------------------------------------------------------------------- *)

\* The lab with or without an extra obstruction, as
\* find_obstructions_producing_cycles passes it, and a guard on any
\* position of the lab, in any direction.
DetectInit ==
    /\ \E input \in Day06Inputs :
         /\ \E extra \in Extras(input.lab) :
              lab = [input.lab EXCEPT !.extra_obstruction = extra]
         /\ \E direction \in Direction :
              initial_guard = [input.guard EXCEPT !.guard_direction = direction]
    /\ guard = initial_guard
    /\ turns = {}
    /\ obstructions = {}
    /\ day06_pc = "detect"
    /\ Day06Others

\* A slip that remembers where the guard turned and not which way.
DetectStep_by_position ==
    /\ day06_pc = "detect"
    /\ IF ~in_bounds(lab, guard.guard_position)
       THEN /\ day06_pc' = "detect_false"
            /\ UNCHANGED <<guard, turns>>
       ELSE LET r == move_guard(lab, guard)
            IN  /\ guard' = r.guard
                /\ IF r.action = "Turn"
                   THEN IF \E t \in turns : t.guard_position = r.guard.guard_position
                        THEN /\ day06_pc' = "detect_true"
                             /\ UNCHANGED turns
                        ELSE /\ day06_pc' = "detect"
                             /\ turns' = turns \cup {r.guard}
                   ELSE /\ day06_pc' = "detect"
                        /\ UNCHANGED turns
    /\ UNCHANGED <<lab, initial_guard, obstructions>>
    /\ UNCHANGED <<automata_vars, day03_vars, day04_vars>>

\* One turn of the while loop, or the return once its condition fails.
DetectStep ==
    /\ day06_pc = "detect"
    /\ IF ~in_bounds(lab, guard.guard_position)
       THEN /\ day06_pc' = "detect_false"
            /\ UNCHANGED <<guard, turns>>
       ELSE LET r == move_guard(lab, guard)
            IN  /\ guard' = r.guard
                /\ IF r.action = "Turn"
                   THEN IF r.guard \in turns
                        THEN /\ day06_pc' = "detect_true"
                             /\ UNCHANGED turns
                        ELSE /\ day06_pc' = "detect"
                             /\ turns' = turns \cup {r.guard}
                   ELSE /\ day06_pc' = "detect"
                        /\ UNCHANGED turns
    /\ UNCHANGED <<lab, initial_guard, obstructions>>
    /\ UNCHANGED <<automata_vars, day03_vars, day04_vars>>

DetectNext == DetectStep

DetectSpec == DetectInit /\ [][DetectNext]_vars

\* The loop is run to its end: no turn of it is put off for ever.
DetectLiveSpec == DetectSpec /\ WF_vars(DetectStep)

(* ---------------------------------------------------------------------- *)
(* Properties.                                                             *)
(* ---------------------------------------------------------------------- *)

\* The references handed out so far: 0 and what add_state has returned.
Allocated == {0} \cup {issued[k] : k \in 1 .. Len(issued)}

\* The positions of a transition list whose predicate accepts the byte.
Matching(transitions, byte) ==
    {i \in 1 .. Len(transitions) : Apply(transitions[i].predicate, byte)}

\* C1: first match wins. When at least one predicate of the current
\* state's list accepts the byte, transition(byte) succeeds and moves to
\* the target of the accepting transition of lowest index, whatever later
\* transitions also accept the byte.
C1_FirstMatchWins ==
    [][last'.op = "transition" =>
       \A byte \in Bytes :
         DoTransition(byte) =>
           LET ts == states[current_state + 1].transitions
               M  == Matching(ts, byte)
           IN  M # {} =>
                 /\ last'.result = "Ok"
                 /\ \E i \in M :
                      /\ \A j \in M : i <= j
                      /\ current_state' = ts[i].result_state_ref]_vars

\* A transition on 'x' has just been taken from state 0, whose list is
\* [is_x -> 1, always -> 2]: both predicates accept 'x', the first one won.
C1_Witness ==
    /\ last = [op |-> "transition", result |-> "Ok"]
    /\ Len(states) = 3
    /\ states[1].transitions =
         << [predicate |-> "is_x", result_state_ref |-> 1],
            [predicate |-> "always", result_state_ref |-> 2] >>
    /\ current_state = 1

\* C2: when no predicate of the current state's list accepts the byte (an
\* empty list included), transition(byte) returns MissingTransition and
\* current_state is what it was before the call.
C2_MissingTransitionKeepsState ==
    [][last'.op = "transition" =>
       \A byte \in Bytes :
         DoTransition(byte) =>
           LET ts == states[current_state + 1].transitions
           IN  Matching(ts, byte) = {} =>
                 /\ last'.result = "MissingTransition"
                 /\ current_state' = current_state]_vars

\* A transition has just failed in a state other than the initial one whose
\* list is not empty.
C2_Witness ==
    /\ last = [op |-> "transition", result |-> "MissingTransition"]
    /\ current_state # 0
    /\ states[current_state + 1].transitions # <<>>

\* C3: in every state the automaton reaches, add_transition(from, p, to)
\* returns MissingState exactly when from or to is not an allocated
\* reference at the time of the call, and Ok in every other case.
C3_MissingStateIff ==
    \A state_ref \in StateRefs, p \in Predicates,
       resulting_state_ref \in StateRefs :
      LET result == add_transition(states, state_ref, p,
                                   resulting_state_ref).result
      IN  /\ result \in {"Ok", "MissingState"}
          /\ result = "MissingState" <=>
               (state_ref \notin Allocated
                  \/ resulting_state_ref \notin Allocated)

\* add_transition has just failed on an automaton with more than the
\* initial state.
C3_Witness ==
    /\ last = [op |-> "add_transition", result |-> "MissingState"]
    /\ Len(states) >= 2

\* C4: a failed add_transition leaves the automaton as it was: the states,
\* every transition list and current_state.
C4_FailedAddTransitionChangesNothing ==
    [][(last'.op = "add_transition" /\ last'.result = "MissingState") =>
         /\ states' = states
         /\ current_state' = current_state
         /\ issued' = issued]_vars

\* add_transition has just failed on an automaton that holds transitions
\* and has left its initial state.
C4_Witness ==
    /\ last = [op |-> "add_transition", result |-> "MissingState"]
    /\ states[1].transitions # <<>>
    /\ current_state # 0

\* C5: current_state always refers to a state of the registry, so the
\* lookup at the start of transition never fails.
C5_CurrentStateExists ==
    /\ current_state \in 0 .. Len(states) - 1
    /\ last.result # "Panic"

\* A transition has just moved the automaton to the state added last.
C5_Witness ==
    /\ last = [op |-> "transition", result |-> "Ok"]
    /\ Len(states) = 3
    /\ current_state = 2

\* C6: the target of every transition stored on every state refers to a
\* state of the registry.
C6_NoDanglingTarget ==
    \A i \in 1 .. Len(states) :
      \A k \in 1 .. Len(states[i].transitions) :
        states[i].transitions[k].result_state_ref \in 0 .. Len(states) - 1

\* A transition to the state added last is registered on a state other
\* than the initial one.
C6_Witness ==
    /\ Len(states) = 3
    /\ Len(states[2].transitions) = 1
    /\ states[2].transitions[1].result_state_ref = 2

\* C7: the k-th add_state call returns k, which is greater than 0 and
\* than every reference returned earlier, and the registry then holds
\* k + 1 states.
C7_AddStateReturnsNext ==
    /\ \A k \in 1 .. Len(issued) :
         /\ issued[k] = k
         /\ issued[k] > 0
         /\ \A j \in 1 .. k - 1 : issued[j] < issued[k]
    /\ Len(states) = Len(issued) + 1

\* add_state has just returned for the second time.
C7_Witness ==
    /\ last.op = "add_state"
    /\ Len(issued) = 2

\* A reference is valid when it indexes a state that carries it.
Valid(state_ref, sts) ==
    /\ state_ref \in 0 .. Len(sts) - 1
    /\ sts[state_ref + 1].state_ref = state_ref

\* C8: every issued reference stays valid across every call (no call
\* removes or renumbers a state, the allocated set never shrinks), and no
\* two add_state calls return the same reference.
C8_ReferencesStable ==
    [][/\ \A state_ref \in Allocated :
            Valid(state_ref, states) => Valid(state_ref, states')
       /\ \A state_ref \in Allocated' : Valid(state_ref, states')
       /\ Allocated \subseteq Allocated'
       /\ \A j, k \in 1 .. Len(issued') :
            issued'[j] = issued'[k] => j = k]_vars

\* Two references were issued and the automaton has since been wired and
\* driven.
C8_Witness ==
    /\ Len(issued) = 2
    /\ last = [op |-> "transition", result |-> "Ok"]
    /\ states[1].transitions # <<>>

\* C9: a successful add_transition(from, p, to) puts (p, to) last on the
\* list of from, keeps the earlier elements of that list where they were,
\* and changes no other state's list nor current_state.
C9_AddTransitionAppends ==
    [][(last'.op = "add_transition" /\ last'.result = "Ok") =>
       \A state_ref \in StateRefs, p \in Predicates,
          resulting_state_ref \in StateRefs :
         AddTransition(state_ref, p, resulting_state_ref) =>
           LET old == states[state_ref + 1].transitions
               new == states'[state_ref + 1].transitions
           IN  /\ Len(states') = Len(states)
               /\ Len(new) = Len(old) + 1
               /\ SubSeq(new, 1, Len(old)) = old
               /\ new[Len(new)] = [predicate |-> p,
                                   result_state_ref |-> resulting_state_ref]
               /\ states'[state_ref + 1].state_ref
                    = states[state_ref + 1].state_ref
               /\ \A i \in 1 .. Len(states) :
                    i # state_ref + 1 => states'[i] = states[i]
               /\ current_state' = current_state]_vars

\* add_transition has just succeeded on a state that already had a
\* transition, and that transition differs from the new one.
C9_Witness ==
    /\ last = [op |-> "add_transition", result |-> "Ok"]
    /\ \E i \in 1 .. Len(states) :
         /\ Len(states[i].transitions) = 2
         /\ states[i].transitions[1] # states[i].transitions[2]

\* C10: a successful add_transition_all(p, to) puts (p, to) last on the
\* list of every state registered at the time of the call, once per state,
\* behind the transitions the state already had.
C10_AddTransitionAllAppendsEverywhere ==
    [][(last'.op = "add_transition_all" /\ last'.result = "Ok") =>
       \A p \in Predicates, resulting_state_ref \in StateRefs :
         AddTransitionAll(p, resulting_state_ref) =>
           /\ Len(states') = Len(states)
           /\ \A i \in 1 .. Len(states) :
                /\ states'[i].state_ref = states[i].state_ref
                /\ states'[i].transitions =
                     states[i].transitions
                       \o << [predicate |-> p,
                              result_state_ref |-> resulting_state_ref] >>
           /\ current_state' = current_state]_vars

\* add_transition_all has just succeeded on two states, the target among
\* them.
C10_Witness ==
    /\ last = [op |-> "add_transition_all", result |-> "Ok"]
    /\ Len(states) = 2
    /\ \A i \in 1 .. 2 :
         /\ Len(states[i].transitions) = 1
         /\ states[i].transitions[1].result_state_ref = 1

\* C11: add_transition_all is not retroactive. A state that add_state
\* creates right after a successful add_transition_all(p, to) has an empty
\* transition list, and transition from that state on a byte p accepts
\* fails with MissingTransition and stays there.
C11_AddTransitionAllNotRetroactive ==
    [][(last = [op |-> "add_transition_all", result |-> "Ok"]
          /\ last'.op = "add_state") =>
         LET new  == Len(states') - 1
             own  == states[1].transitions
             rule == own[Len(own)]
         IN  /\ states'[new + 1].transitions = <<>>
             /\ \A i \in 1 .. Len(states) :
                  states'[i].transitions[Len(states'[i].transitions)] = rule
             /\ \A byte \in Bytes :
                  Apply(rule.predicate, byte) =>
                    transition(new, states', byte) =
                      [current_state |-> new,
                       result |-> "MissingTransition"]]_vars

\* A third state has just been added to two states that
\* add_transition_all had covered in the call before.
C11_Witness ==
    /\ before = [op |-> "add_transition_all", result |-> "Ok"]
    /\ last = [op |-> "add_state", result |-> "Ok"]
    /\ Len(states) = 3
    /\ states[1].transitions # <<>>
    /\ states[1].transitions = states[2].transitions
    /\ states[3].transitions = <<>>

\* C12: while every state carries an always-true transition, every
\* transition call succeeds; and the engine adds no default of its own: a
\* call in a state none of whose predicates accepts the byte returns
\* MissingTransition.
C12_TotalOnlyWithCatchAll ==
    [][last'.op = "transition" =>
       \A byte \in Bytes :
         DoTransition(byte) =>
           /\ (\A i \in 1 .. Len(states) :
                 \E k \in 1 .. Len(states[i].transitions) :
                   states[i].transitions[k].predicate = "always")
                => last'.result = "Ok"
           /\ (\A k \in 1 .. Len(states[current_state + 1].transitions) :
                 ~Apply(states[current_state + 1].transitions[k].predicate,
                        byte))
                => last'.result = "MissingTransition"]_vars

\* A transition on 'y' has just succeeded into the second of two states
\* that both carry an always-true transition and nothing else.
C12_Witness ==
    /\ last = [op |-> "transition", result |-> "Ok"]
    /\ Len(states) = 2
    /\ \A i \in 1 .. 2 :
         /\ Len(states[i].transitions) = 1
         /\ states[i].transitions[1].predicate = "always"
    /\ current_state = 1

\* C14: new() yields one state, with reference 0 and no transition, and
\* current_state 0.
C14_NewAutomaton ==
    last.op = "new" =>
      /\ Len(states) = 1
      /\ states[1].state_ref = 0
      /\ states[1].transitions = <<>>
      /\ current_state = 0
      /\ issued = <<>>

\* The automaton as new() returns it, before any other call.
C14_Witness ==
    /\ last = [op |-> "new", result |-> "Ok"]
    /\ before = NoCall
    /\ Len(states) = 1

\* C15: add_state succeeds, adds exactly one state, with an empty
\* transition list, behind the existing ones, and leaves current_state and
\* every existing state as they were.
C15_AddStateFrame ==
    [][last'.op = "add_state" =>
         /\ last'.result = "Ok"
         /\ Len(states') = Len(states) + 1
         /\ states'[Len(states')].transitions = <<>>
         /\ \A i \in 1 .. Len(states) : states'[i] = states[i]
         /\ current_state' = current_state]_vars

\* A state has just been added to an automaton that holds transitions and
\* has left its initial state.
C15_Witness ==
    /\ last = [op |-> "add_state", result |-> "Ok"]
    /\ Len(states) = 3
    /\ states[1].transitions # <<>>
    /\ current_state = 1

\* C16: a failed add_transition is not validated later. When add_state
\* allocates a reference right after an add_transition has failed, every
\* add_transition(from, p, to) naming that reference as target failed, and
\* no state from holds a transition (p, to) afterwards; a byte that no
\* predicate registered on from accepts still fails with MissingTransition
\* from there.
C16_FailedAddTransitionStaysFailed ==
    [][(last = [op |-> "add_transition", result |-> "MissingState"]
          /\ last'.op = "add_state") =>
         LET to == issued'[Len(issued')]
         IN  \A from \in 0 .. Len(states) - 1, p \in Predicates :
               /\ add_transition(states, from, p, to).result = "MissingState"
               /\ \A k \in 1 .. Len(states'[from + 1].transitions) :
                    states'[from + 1].transitions[k]
                      # [predicate |-> p, result_state_ref |-> to]
               /\ \A byte \in Bytes :
                    (/\ Apply(p, byte)
                     /\ \A k \in 1 .. Len(states'[from + 1].transitions) :
                          ~Apply(states'[from + 1].transitions[k].predicate,
                                 byte))
                      => transition(from, states', byte) =
                           [current_state |-> from,
                            result |-> "MissingTransition"]]_vars

\* add_state has just allocated 1 right after an add_transition failed;
\* state 0 holds the rule is_x only, so 'y' is accepted by the refused
\* always-true predicate alone.
C16_Witness ==
    /\ before = [op |-> "add_transition", result |-> "MissingState"]
    /\ last = [op |-> "add_state", result |-> "Ok"]
    /\ Len(states) = 2
    /\ Len(states[1].transitions) = 1
    /\ states[1].transitions[1].predicate = "is_x"

\* C18: while the bytes of "xmul(2,50)" are fed to the freshly built day 3
\* machine, the parser is in mul_end after the final ')' and after no
\* earlier byte, no expect() fails, sum_of_muls is 0 before the ')' and
\* 100 after it.
C18_KeywordScanner ==
    (day03_fed \o day03_input = Input_xmul_2_50) =>
      /\ day03_status = "running"
      /\ (day03_machine.parser_state.current_state = day03_machine.mul_end)
           <=> (day03_input = <<>>)
      /\ day03_machine.sum_of_muls = IF day03_input = <<>> THEN 100 ELSE 0

\* The whole of "xmul(2,50)" has been fed.
C18_Witness ==
    /\ day03_fed = Input_xmul_2_50
    /\ day03_input = <<>>
    /\ day03_machine.n1 = 2
    /\ day03_machine.n2 = 50

\* The machine a lane is after it alone saw the bytes, from a fresh build.
RECURSIVE RunAlone(_)
RunAlone(bytes) ==
    IF bytes = <<>> THEN Day04_build_machine.machine
    ELSE Day04_transition(RunAlone(SubSeq(bytes, 1, Len(bytes) - 1)),
                          bytes[Len(bytes)]).machine

\* C17: automata built separately are independent: feeding one machine
\* leaves the current state, the registry and the count of every other
\* machine as they were, and each machine is at every moment what it would
\* be had it alone seen its own bytes.
C17_LanesIndependent ==
    /\ [](\A k \in 1 .. Lanes : machines[k] = RunAlone(fed[k]))
    /\ [][\A k \in 1 .. Lanes : fed'[k] # fed[k] =>
            \A other \in (1 .. Lanes) \ {k} :
              /\ machines'[other] = machines[other]
              /\ fed'[other] = fed[other]]_vars

C17_Witness ==
    /\ Len(fed) = Lanes
    /\ fed[1] = <<88, 77>>
    /\ fed[2] = <<83, 65>>
    /\ machines[1].parser_state.current_state
         # machines[2].parser_state.current_state

IsPrefix(s, t) == Len(s) <= Len(t) /\ s = SubSeq(t, 1, Len(s))

\* C19: a day 4 machine fed X, M, A, S from its initial state is in
\* xmas_end after the S and not before, and has then counted once.
C19_XmasScanner ==
    \A k \in 1 .. Len(fed) :
      IsPrefix(fed[k], Word_XMAS) =>
        /\ day04_status = "running"
        /\ (machines[k].parser_state.current_state = machines[k].xmas_end)
             <=> (fed[k] = Word_XMAS)
        /\ machines[k].count = IF fed[k] = Word_XMAS THEN 1 ELSE 0

C19_Witness ==
    /\ Len(fed) = Lanes
    /\ fed[1] = Word_XMAS
    /\ machines[1].parser_state.current_state = machines[1].xmas_end
    /\ machines[1].count = 1

\* Number of occurrences of the word in a grid: the cells and directions
\* from which X, M, A, S can be read.
RefCount(grid) ==
    Cardinality(
      {pl \in UNION {{<<i, j, d>> : j \in 1 .. Len(grid[i]), d \in Directions} :
                       i \in 1 .. Len(grid)} :
         \A k \in 0 .. Len(Word_XMAS) - 1 :
           LET r == pl[1] + k * pl[3][1]
               c == pl[2] + k * pl[3][2]
           IN  /\ r >= 1 /\ r <= Len(grid)
               /\ c >= 1 /\ c <= Len(grid[r])
               /\ grid[r][c] = Word_XMAS[k + 1]})

\* C20: on a rectangular grid count_xmas never panics and returns the
\* number of occurrences of XMAS along rows, columns and both diagonals,
\* forwards and backwards, overlapping ones counted separately; on a grid
\* with no rows it returns 0.
C20_CountXmas ==
    /\ day04_status # "panic"
    /\ day04_status = "done" =>
         /\ sum = RefCount(array)
         /\ Len(array) = 0 => sum = 0

C20_Witness ==
    /\ day04_status = "done"
    /\ Len(array) = 4
    /\ Len(array[1]) = 4
    /\ sum = 2
    /\ \E i \in 1 .. Len(array) : RefCount(<<array[i]>>) = 1
    /\ RefCount(array) = 2

\* The references add_state has returned on the second automaton and
\* never on the first.
Foreign ==
    {other_issued[k] : k \in 1 .. Len(other_issued)}
      \ {issued[k] : k \in 1 .. Len(issued)}

\* C21: add_transition on an automaton with a reference that add_state
\* returned on another automaton, and never on this one, fails with
\* MissingState, as source and as target, whatever the sizes of the two.
C21_ForeignReferenceMissing ==
    /\ [](\A ref \in Foreign, p \in PairPredicates, known \in StateRefs :
            /\ add_transition(states, ref, p, known).result = "MissingState"
            /\ add_transition(states, known, p, ref).result = "MissingState")
    /\ [][\A ref \in Foreign, p \in PairPredicates, known \in StateRefs :
            (PairAddTransition(ref, p, known)
               \/ PairAddTransition(known, p, ref))
              => (last'.result = "MissingState" /\ states' = states)]_vars

C21_Witness ==
    /\ last = [op |-> "add_transition", result |-> "MissingState"]
    /\ Len(states) = 2
    /\ states[1].transitions # <<>>
    /\ Foreign = {2, 3}

\* C22: transition(b) never changes the registry. On success and on
\* failure alike the number of states and every transition list are after
\* the call what they were before; only current_state can change.
C22_TransitionKeepsRegistry ==
    [][last'.op = "transition" =>
         /\ states' = states
         /\ issued' = issued
         /\ (last'.result # "Ok" => current_state' = current_state)]_vars

\* A transition has just succeeded into the last of three states, on an
\* automaton that holds two transitions.
C22_Witness ==
    /\ last = [op |-> "transition", result |-> "Ok"]
    /\ Len(states) = 3
    /\ TransitionCount(states) = 2
    /\ current_state = 2
    /\ states[3].transitions = <<>>

\* The targets of the transitions registered on a state.
Targets(state) ==
    {state.transitions[i].result_state_ref : i \in 1 .. Len(state.transitions)}

\* C23: current_state is always the initial reference 0 or the target of a
\* transition registered on some state, and each successful transition(b)
\* moves along one registered transition of the state that was current
\* before the call and accepts b: one step per byte, never a chain.
C23_OneStepPerByte ==
    /\ [](current_state = 0
            \/ \E k \in 1 .. Len(states) : current_state \in Targets(states[k]))
    /\ [][(last'.op = "transition" /\ last'.result = "Ok") =>
            \E byte \in Bytes :
              /\ DoTransition(byte)
              /\ \E i \in Matching(states[current_state + 1].transitions, byte) :
                   current_state' =
                     states[current_state + 1].transitions[i].result_state_ref]_vars

\* The automaton has walked 0 -> 1 -> 2, which takes two calls: state 2 is
\* no target of state 0.
C23_Witness ==
    /\ last = [op |-> "transition", result |-> "Ok"]
    /\ Len(states) = 3
    /\ current_state = 2
    /\ Targets(states[1]) = {1}
    /\ Targets(states[2]) = {2}

\* C24: appending never shadows. Whenever transition(b) from a state s
\* succeeds with target t, it still succeeds with target t after a further
\* add_transition or add_transition_all (or any other call): a call can
\* change the outcome of (s, b) only where it was MissingTransition.
C24_AppendNeverShadows ==
    [][states' # states =>
         \A s \in 0 .. Len(states) - 1, byte \in Bytes :
           transition(s, states, byte).result = "Ok" =>
             transition(s, states', byte) = transition(s, states, byte)]_vars

\* A rule for 'x' has been appended to state 0 behind a catch-all rule: it
\* accepts 'x' and is never reached.
C24_Witness ==
    /\ last = [op |-> "add_transition", result |-> "Ok"]
    /\ Len(states) = 3
    /\ current_state = 0
    /\ states[1].transitions =
         << [predicate |-> "always", result_state_ref |-> 1],
            [predicate |-> "is_x", result_state_ref |-> 2] >>
    /\ transition(0, states, ByteX).current_state = 1

\* C25: add_transition_all(p, to) with a target that does not exist fails
\* with MissingState and is all-or-nothing: after the failed call every
\* state's transition list is what it was.
C25_AddTransitionAllAllOrNothing ==
    /\ [](\A p \in Predicates, to \in StateRefs :
            to >= Len(states) =>
              add_transition_all(states, p, to) =
                [states |-> states, result |-> "MissingState"])
    /\ [][last' = [op |-> "add_transition_all", result |-> "MissingState"]
            => states' = states]_vars

\* add_transition_all has just failed on an automaton with several states,
\* one of which holds a transition.
C25_Witness ==
    /\ last = [op |-> "add_transition_all", result |-> "MissingState"]
    /\ Len(states) >= 2
    /\ TransitionCount(states) >= 1

\* C26: the automatons of the day 3 and day 4 machines are built without
\* a MissingState error, and from every state of theirs transition
\* succeeds on every byte 0..255 and lands on a state of the automaton:
\* Machine::transition never hits its expect().
C26_MachinesTotal ==
    /\ Day03_build_machine.result = "Ok"
    /\ Day04_build_machine_helper.result = "Ok"
    /\ day03_status \in {"idle", "running"}
    /\ day04_status \in {"idle", "running"}
    /\ day03_status = "running" =>
         /\ day03_machine.parser_state.current_state
              < Len(day03_machine.parser_state.states)
         /\ transition(day03_machine.parser_state.current_state,
                       day03_machine.parser_state.states,
                       IF day03_input = <<>> THEN day03_fed[1]
                       ELSE day03_input[1]).result = "Ok"
    /\ day04_status = "running" =>
         /\ machines[1].parser_state.current_state
              < Len(machines[1].parser_state.states)
         /\ \A byte \in Day04Bytes \cup {0, 255} :
              transition(machines[1].parser_state.current_state,
                         machines[1].parser_state.states, byte).result = "Ok"

\* The day 3 machine has taken the byte 255 from the state that follows
\* the digits of the second operand.
C26_Witness ==
    /\ day03_status = "running"
    /\ day03_fed = <<255>>
    /\ day03_machine.n2 = 0
    /\ day03_machine.parser_state.current_state = 0

\* The bytes S, A, M, X.
Word_SAMX == <<83, 65, 77, 88>>

\* TRUE iff an occurrence of the word ends at position k of the bytes.
EndsAt(bytes, k, word) ==
    /\ k >= Len(word)
    /\ SubSeq(bytes, k - Len(word) + 1, k) = word

\* Number of positions at which XMAS or SAMX ends.
WordEnds(bytes) ==
    Cardinality({k \in 1 .. Len(bytes) :
                   EndsAt(bytes, k, Word_XMAS) \/ EndsAt(bytes, k, Word_SAMX)})

\* C27: after every byte sequence the count of a day 4 machine is the
\* number of positions at which an occurrence of XMAS or of SAMX ends,
\* overlapping occurrences included; a byte raises the count by at most
\* one and never lowers it.
C27_CountIsWordEnds ==
    /\ [](/\ day04_status = "running"
          /\ machines[1].count = WordEnds(fed[1]))
    /\ [][machines'[1].count \in {machines[1].count, machines[1].count + 1}]_vars

\* XMASAMX has been fed: XMAS and SAMX share the S and both count.
C27_Witness ==
    /\ fed[1] = <<88, 77, 65, 83, 65, 77, 88>>
    /\ machines[1].count = 2

\* The cells of a line of the grid in line order, by the index of the
\* machine of the line: the rows, then the columns, then the diagonals on
\* which i + j is constant, then those on which i - j is constant; a
\* diagonal is walked by growing row.
Line(arr, k) ==
    LET R == Len(arr)
        C == Len(arr[1])
        H == R + C - 1
        d == k - R - C
        e == k - R - C - H
        Max(a, b) == IF a > b THEN a ELSE b
        Min(a, b) == IF a < b THEN a ELSE b
        lo1 == Max(0, d - C + 1)
        hi1 == Min(R - 1, d)
        lo2 == Max(0, e - C + 1)
        hi2 == Min(R - 1, e)
    IN  IF k < R THEN arr[k + 1]
        ELSE IF k < R + C THEN [r \in 1 .. R |-> arr[r][k - R + 1]]
        ELSE IF k < R + C + H
        THEN [n \in 1 .. hi1 - lo1 + 1 |->
                arr[lo1 + n][d - (lo1 + n - 1) + 1]]
        ELSE [n \in 1 .. hi2 - lo2 + 1 |->
                arr[lo2 + n][C + (lo2 + n - 1) - 1 - e + 1]]

\* TRUE iff cells (i, j) and (i2, j2) lie on the same line of family n:
\* row, column, or one of the two diagonals.
SameLine(n, i, j, i2, j2) ==
    CASE n = 1 -> i = i2
      [] n = 2 -> j = j2
      [] n = 3 -> i + j = i2 + j2
      [] n = 4 -> i - j = i2 - j2

\* C28: in count_xmas on a rectangular grid with R >= 1 rows and C columns
\* every cell (i, j) is fed to exactly four pairwise distinct machines,
\* those of row i, column j and the diagonals i + j and C + i - j - 1;
\* every index used is below R + C + 2 * (R + C - 1); two cells share a
\* machine only when they lie on the same row, column or diagonal; and
\* each machine receives the cells of its line in line order.
C28_CellsToLines ==
    /\ []((day04_status \in {"running", "done"} /\ Len(array) >= 1) =>
            LET R == Len(array)
                C == Len(array[1])
                H == R + C - 1
            IN  /\ Len(machines) = R + C + 2 * H
                /\ \A k \in 1 .. Len(fed) :
                     IsPrefix(fed[k], Line(array, k - 1))
                /\ day04_status = "done" =>
                     \A k \in 1 .. Len(fed) : fed[k] = Line(array, k - 1)
                /\ cell = <<0, 0>> =>
                     \A i \in 0 .. R - 1, j \in 0 .. C - 1,
                        i2 \in 0 .. R - 1, j2 \in 0 .. C - 1 :
                       <<i, j>> # <<i2, j2>> =>
                         \A n \in 1 .. 4, m \in 1 .. 4 :
                           cell_machines(R, C, H, i, j)[n]
                               = cell_machines(R, C, H, i2, j2)[m]
                             => (n = m /\ SameLine(n, i, j, i2, j2)))
    /\ [][(day04_status = "running" /\ cell[1] < Len(array)) =>
            LET R == Len(array)
                C == Len(array[1])
                H == R + C - 1
                i == cell[1]
                j == cell[2]
                to == {i, R + j, R + C + i + j, R + C + H + (C + i - j - 1)}
            IN  /\ day04_status' = "running"
                /\ Cardinality(to) = 4
                /\ \A k \in to : k < R + C + 2 * H
                /\ \A k \in 1 .. Len(fed) :
                     fed'[k] = IF k - 1 \in to
                               THEN Append(fed[k], array[i + 1][j + 1])
                               ELSE fed[k]
                /\ \A k \in 1 .. Len(machines) :
                     k - 1 \notin to => machines'[k] = machines[k]]_vars

\* count_xmas is over on the grid of test_count_xmas_1, with more columns
\* than rows: the last machine has been fed its single corner cell.
C28_Witness ==
    /\ day04_status = "done"
    /\ array = Grid_test_count_xmas_1
    /\ fed[Len(fed)] = <<array[Len(array)][1]>>
    /\ fed[1] = array[1]

\* The bytes of "do()" and of "don't()".
Word_do == <<100, 111, 40, 41>>

Word_dont == <<100, 111, 110, 39, 116, 40, 41>>

\* The last position at or before k at which an occurrence of the word
\* ends, 0 if there is none.
LastEnd(bytes, k, word) ==
    LET ends == {e \in 1 .. k : EndsAt(bytes, e, word)}
    IN  IF ends = {} THEN 0 ELSE CHOOSE e \in ends : \A f \in ends : f <= e

\* FALSE iff, of the occurrences of do() and don't() that end in the first
\* k bytes, the last to end is a don't().
ActiveAfter(bytes, k) ==
    LastEnd(bytes, k, Word_do) >= LastEnd(bytes, k, Word_dont)

\* C29: in the day 3 machine active is true at first and, after any bytes,
\* false exactly when the most recently completed of do() and don't() is
\* don't(); it changes only on the step that enters do_end or dont_end.
C29_ActiveFollowsDoDont ==
    /\ [](day03_status = "running" =>
            day03_machine.active = ActiveAfter(day03_fed, Len(day03_fed)))
    /\ [][day03_machine'.active # day03_machine.active =>
            day03_machine'.parser_state.current_state
              \in {day03_machine.do_end, day03_machine.dont_end}]_vars

\* don't(), do() and don't() have been read: active is off again.
C29_Witness ==
    /\ day03_status = "running"
    /\ day03_input = <<>>
    /\ day03_fed = Word_dont \o Word_do \o Word_dont
    /\ ~day03_machine.active

\* The bytes of "mul(".
Word_mul == <<109, 117, 108, 40>>

IsDigit(byte) == byte >= 48 /\ byte <= 57

\* The first position of the longest run of digits that ends at position
\* e; e + 1 when the byte at e is no digit.
RECURSIVE RunStart(_, _)
RunStart(bytes, e) ==
    IF e >= 1 /\ IsDigit(bytes[e]) THEN RunStart(bytes, e - 1) ELSE e + 1

\* The number the digits from position s to e spell, 0 for no digit; -1
\* when it does not fit in u32.
RECURSIVE Value(_, _, _)
Value(bytes, s, e) ==
    IF s > e THEN 0
    ELSE add_u32(mul_u32(Value(bytes, s, e - 1), 10), bytes[e] - 48)

\* The occurrence of mul(X,Y) that ends at position k, if any: whether
\* there is one, and the numbers X and Y.
MulAt(bytes, k) ==
    LET ys == RunStart(bytes, k - 1)
        xs == RunStart(bytes, ys - 2)
    IN  [ends |-> /\ bytes[k] = 41
                  /\ ys >= 2
                  /\ bytes[ys - 1] = 44
                  /\ EndsAt(bytes, xs - 1, Word_mul),
         x |-> Value(bytes, xs, ys - 2),
         y |-> Value(bytes, ys, k - 1)]

\* Every run of digits of the bytes spells a number that fits in u32.
OperandsFit(bytes) ==
    \A e \in 1 .. Len(bytes) :
      IsDigit(bytes[e]) => Value(bytes, RunStart(bytes, e), e) >= 0

\* The sum of X * Y over the occurrences of mul(X,Y) that end in the first
\* k bytes while active; -1 when a product or the sum does not fit in u32.
RECURSIVE SumOfMuls(_, _)
SumOfMuls(bytes, k) ==
    IF k = 0 THEN 0
    ELSE IF MulAt(bytes, k).ends /\ ActiveAfter(bytes, k)
    THEN add_u32(SumOfMuls(bytes, k - 1),
                 mul_u32(MulAt(bytes, k).x, MulAt(bytes, k).y))
    ELSE SumOfMuls(bytes, k - 1)

\* sum_of_muls changes only on a step that enters mul_end with active true.
SumChangesOnMulEnd ==
    [][day03_machine'.sum_of_muls # day03_machine.sum_of_muls =>
         /\ day03_machine'.parser_state.current_state = day03_machine.mul_end
         /\ day03_machine.active]_vars

\* C30, as it holds: for every byte sequence whose operands, products and
\* running sum all fit in u32, sum_of_muls is the sum of X * Y over the
\* occurrences of mul(X,Y) whose ')' is read while active is true;
\* sum_of_muls changes only on a step that enters mul_end with active
\* true, so an abandoned mul( contributes nothing.
C30_SumOfActiveMuls ==
    /\ [](/\ day03_status # "beyond"
          /\ (OperandsFit(day03_fed)
                /\ SumOfMuls(day03_fed, Len(day03_fed)) >= 0) =>
               /\ day03_status = "running"
               /\ day03_machine.sum_of_muls
                    = SumOfMuls(day03_fed, Len(day03_fed)))
    /\ SumChangesOnMulEnd

\* "mul(mul(2,4)3,5)" has been read: the abandoned head and the tail
\* without a head add nothing to the 8 of the whole instruction.
C30_Witness ==
    /\ day03_status = "running"
    /\ day03_input = <<>>
    /\ day03_fed = Word_mul \o <<109, 117, 108, 40, 50, 44, 52, 41>>
                     \o <<51, 44, 53, 41>>
    /\ day03_machine.sum_of_muls = 8

\* C30 as the claim words it: operands that fit in u32 are enough for
\* sum_of_muls to be the sum of the products. "mul(65536,65536)" refutes
\* it: the operands fit, their product is 2^32.
C30_AsWorded ==
    OperandsFit(day03_fed) =>
      /\ day03_status \in {"running", "beyond"}
      /\ day03_status = "running" =>
           day03_machine.sum_of_muls = SumOfMuls(day03_fed, Len(day03_fed))

\* The number of digits of the two operands of the mul(X,Y) that ends at
\* position k.
OperandDigits(bytes, k) ==
    LET ys == RunStart(bytes, k - 1)
        xs == RunStart(bytes, ys - 2)
    IN  [x |-> ys - 1 - xs, y |-> k - ys]

\* The day 3 machine enters mul_end exactly on the ')' of an occurrence of
\* mul(X,Y) with X and Y runs of digits of any length, none included.
MulEndIffDigitRuns ==
    (day03_status = "running" /\ day03_fed # <<>>) =>
      ((day03_machine.parser_state.current_state = day03_machine.mul_end)
         <=> MulAt(day03_fed, Len(day03_fed)).ends)

\* C31: the day 3 machine reaches mul_end only for instructions mul(X,Y)
\* in which X and Y each have one to three digits.
C31_OneToThreeDigits ==
    (/\ day03_status = "running"
     /\ day03_fed # <<>>
     /\ day03_machine.parser_state.current_state = day03_machine.mul_end) =>
      /\ MulAt(day03_fed, Len(day03_fed)).ends
      /\ OperandDigits(day03_fed, Len(day03_fed)).x \in 1 .. 3
      /\ OperandDigits(day03_fed, Len(day03_fed)).y \in 1 .. 3

\* The rules a state of the day 3 automaton has of its own: those ahead of
\* the three every state is given last.
SpecificRules(machine, state_ref) ==
    LET rules == machine.parser_state.states[state_ref + 1].transitions
    IN  SubSeq(rules, 1, Len(rules) - 3)

\* TRUE iff a rule of the state's own accepts the byte.
SpecificMatch(machine, state_ref, byte) ==
    \E i \in 1 .. Len(SpecificRules(machine, state_ref)) :
        Apply(SpecificRules(machine, state_ref)[i].predicate, byte)

\* The state build_machine names do_dont_1: the one registered after
\* mul_end.
Day03_do_dont_1 == Day03_build_machine.machine.mul_end + 1

\* C32: from every state of the day 3 machine the byte 'm' moves the
\* parser to mul_1 and sets n1 and n2 to 0, the byte 'd' moves it to
\* do_dont_1, and every other byte that no rule of the state's own accepts
\* moves it to the initial state.
C32_RestartFromEveryState ==
    [][day03_fed' # day03_fed =>
         LET cur  == day03_machine.parser_state.current_state
             byte == Head(day03_input)
             next == day03_machine'.parser_state.current_state
         IN  /\ day03_status' = "running"
             /\ byte = 109 =>
                  /\ next = day03_machine.mul_start
                  /\ day03_machine'.n1 = 0
                  /\ day03_machine'.n2 = 0
             /\ byte = 100 => next = Day03_do_dont_1
             /\ (byte \notin {109, 100}
                   /\ ~SpecificMatch(day03_machine, cur, byte)) =>
                  next = 0]_vars

\* An 'm' has been read after "mul(12,5)do": the parser left do_dont_2
\* for mul_1 and the operands 12 and 5 are gone, the sum 60 kept.
C32_Witness ==
    /\ day03_status = "running"
    /\ day03_fed = <<109>>
    /\ day03_machine.parser_state.current_state = day03_machine.mul_start
    /\ day03_machine.sum_of_muls = 60
    /\ day03_machine.n1 = 0
    /\ day03_machine.n2 = 0

\* C33: the set find_obstructions_producing_cycles returns never holds
\* the position the guard started on.
C33_StartNeverReturned ==
    day06_pc = "returned" =>
      initial_guard.guard_position \notin obstructions

\* The directions in the order a right turn goes through them.
Headings == <<"North", "East", "South", "West">>

\* The place of a direction in that order, from 0.
HeadingOf(direction) == CHOOSE h \in 0 .. 3 : Headings[h + 1] = direction

\* The cell in front of a guard: x grows to the East, y to the South.
Ahead(g) ==
    LET h == HeadingOf(g.guard_direction)
    IN  <<g.guard_position[1] + <<0, 1, 0, -1>>[h + 1],
          g.guard_position[2] + <<-1, 0, 1, 0>>[h + 1]>>

\* The direction to the right of a direction.
RightOf(direction) == Headings[((HeadingOf(direction) + 1) % 4) + 1]

\* TRUE iff the cell in front of the guard holds an obstruction of the lab
\* or its extra obstruction.
Blocked(l, g) == Ahead(g) \in l.obstructions \cup l.extra_obstruction

\* One step of the walk: a right turn when blocked, a move forward if not.
WalkStep(l, g) ==
    IF Blocked(l, g) THEN [g EXCEPT !.guard_direction = RightOf(@)]
    ELSE [g EXCEPT !.guard_position = Ahead(g)]

\* TRUE iff the position is one of the lab.
InLab(l, position) == position \in Cells(l.x_max, l.y_max)

\* TRUE iff the walk is out of the lab within so many steps.
RECURSIVE Leaves(_, _, _)
Leaves(l, g, steps) ==
    IF ~InLab(l, g.guard_position) THEN TRUE
    ELSE IF steps = 0 THEN FALSE
    ELSE Leaves(l, WalkStep(l, g), steps - 1)

\* TRUE iff the walk never leaves the lab: a walk that is inside for as
\* many steps as there are guards inside has been in one of them twice,
\* and repeats from there.
NeverLeaves(l, g) ==
    ~Leaves(l, g, 4 * Cardinality(Cells(l.x_max, l.y_max)))

\* C34: detect_loop returns for every lab and every guard that starts
\* inside it, and it returns true iff the walk of the guard (forward, a
\* right turn when blocked) never leaves the lab.
C34_DetectLoopDecides ==
    /\ <>(day06_pc \in {"detect_true", "detect_false"})
    /\ [](day06_pc = "detect_true" => NeverLeaves(lab, initial_guard))
    /\ [](day06_pc = "detect_false" => ~NeverLeaves(lab, initial_guard))

\* detect_loop has returned true on a lab with an extra obstruction after
\* the guard went round a loop of four turns or more.
C34_Witness ==
    /\ day06_pc = "detect_true"
    /\ lab.extra_obstruction # {}
    /\ Cardinality(turns) >= 4
    /\ Cardinality({t.guard_position : t \in turns}) >= 2

\* C35: a call of move_guard either turns the guard right where it stands,
\* when the cell ahead holds an obstruction or the extra obstruction, or
\* moves it one cell ahead in the direction it keeps; the lab is as it
\* was.
C35_MoveGuardTurnsOrMoves ==
    [][/\ lab' = lab
       /\ (day06_pc = "detect" /\ InLab(lab, guard.guard_position)) =>
            IF Blocked(lab, guard)
            THEN /\ guard'.guard_direction = RightOf(guard.guard_direction)
                 /\ guard'.guard_position = guard.guard_position
            ELSE /\ guard'.guard_position = Ahead(guard)
                 /\ guard'.guard_direction = guard.guard_direction]_vars

\* The guard has been turned from West to North by the extra obstruction
\* alone, after it moved.
C35_Witness ==
    /\ day06_pc = "detect"
    /\ guard.guard_direction = "North"
    /\ guard.guard_position # initial_guard.guard_position
    /\ guard \in turns
    /\ <<guard.guard_position[1] - 1, guard.guard_position[2]>>
         \in lab.extra_obstruction \ lab.obstructions

====
